---------------------------- MODULE Spec2Model ----------------------------
(***************************************************************************)
(* waconnect-go: the session supervisor (client.SessionManager), the       *)
(* per-session client (client.WAClient) and the core Connection            *)
(* (core.Connection) with its driver and receive goroutines.               *)
(*                                                                         *)
(* A WAClient is a heap object: the model names the objects 1..MaxClients  *)
(* in allocation order, so that "the registered client object" of a        *)
(* session identifier is observable.  Each WAClient owns at most one       *)
(* Connection (WAClient.conn), whose fields are indexed by the client.     *)
(***************************************************************************)
EXTENDS Integers, Sequences, FiniteSets, TLC

\* ------------------------------------------------------------- bounds
\* WAClient objects the run may allocate.
MaxClients == 2
\* Messages the server may have queued ahead of the driver in msgChan.
MaxQueued == 1
\* Bytes of ServerHello data the handshake loop accumulates in the model.
MaxServerData == 48
\* Messages the server sends after a ServerHello the handshake rejected.
MaxStray == 6
\* Transport messages the server sends one by one in the handshake
\* specification.
MaxTransport == 3
\* Transport messages the server sends one by one beyond the capacity of
\* msgChan in the queue specification.
MaxOverflow == 2
\* The first transport messages, which may be altered in transit.
MaxAlterable == 1
\* Bursts of transport messages the server sends into a full msgChan, and
\* the size of a burst in blocks of 2^16 messages.
MaxBursts == 2
BurstBlocks == 32768

\* Attributes and children of the nodes the codec specification encodes.
MaxAttrs == 2
MaxChildren == 2
MaxFrames == 2
MaxCalls == 5

\* ---------------------------------------------------- program constants
Ids == {"s1", "s2"}
Clients == 1..MaxClients
NoClient == 0
NoId == "-"

StatusInitializing == "INITIALIZING"
StatusConnecting == "CONNECTING"
StatusQRReady == "QR_READY"
StatusReady == "READY"
StatusDisconnected == "DISCONNECTED"

ErrNone == "nil"
ErrSessionExists == "session already exists"
ErrSessionNotFound == "session not found"

StateDisconnected == 0
StateConnecting == 1
StateConnected == 2
StateAuthenticated == 3

EventSessionConnected == "session.connected"
EventSessionDisconnected == "session.disconnected"
EventSessionQRReady == "session.qr_ready"
EventWebhookTest == "webhook.test"

MsgChanCap == 100
ErrorChanCap == 10
MinServerHello == 32
maxProcessAttempts == 5
minBytesForError == 256
\* Sizes of the chunks the server's handshake bytes arrive in.
ChunkLens == {16, 32}

\* ------------------------------------------- core: handshake protobuf codec
\* Byte strings are sequences of 0..255.  data[a:b] of the source is
\* Slice(data, a, b).

Slice(data, a, b) == SubSeq(data, a + 1, b)
Bytes(n, b) == [i \in 1..n |-> b]

wireVarint == 0
wireFixed64 == 1
wireBytes == 2
wireFixed32 == 5
fieldClientHello == 2
fieldServerHello == 3
fieldClientFinish == 4
fieldEphemeral == 1
fieldStatic == 2
fieldPayload == 3

\* A uint64 is <<hi, mid, lo>>: bits 56..63, 28..55 and 0..27 of the value
\* (TLC's integers have 32 bits).  U64 is uint64(n) of a small int, U64Int is
\* int(n): a value too large for any byte string of the model is reported as
\* 2^30.
U64(n) == <<0, n \div 268435456, n % 268435456>>
U64Int(n) == IF n[1] = 0 /\ n[2] < 4 THEN n[2] * 268435456 + n[3] ELSE 1073741824
\* n >> k, for k <= 8
U64Shr(n, k) ==
    LET d == 2^k
        m == 268435456 \div d
    IN <<n[1] \div d, n[2] \div d + (n[1] % d) * m, n[3] \div d + (n[2] % d) * m>>
\* An or-shift on 63 bits: what is shifted to bit 63 is lost.
U64OrShiftedLossy(n, d, shift) ==
    LET k == shift \div 7
        place == CASE k % 4 = 0 -> 1 [] k % 4 = 1 -> 128
                   [] k % 4 = 2 -> 16384 [] OTHER -> 2097152
    IN CASE k < 4 -> <<n[1], n[2], n[3] + d * place>>
         [] k < 8 -> <<n[1], n[2] + d * place, n[3]>>
         [] k = 8 -> <<n[1] + d, n[2], n[3]>>
         [] OTHER -> n

\* n | uint64(d) << shift, for d < 128 and shift a multiple of 7 below 64
\* whose seven bits of n are still zero; bits beyond bit 63 are lost.
U64OrShifted(n, d, shift) ==
    LET k == shift \div 7
        place == CASE k % 4 = 0 -> 1 [] k % 4 = 1 -> 128
                   [] k % 4 = 2 -> 16384 [] OTHER -> 2097152
    IN CASE k < 4 -> <<n[1], n[2], n[3] + d * place>>
         [] k < 8 -> <<n[1], n[2] + d * place, n[3]>>
         [] k = 8 -> <<n[1] + d, n[2], n[3]>>
         [] OTHER -> <<n[1] + (d % 2) * 128, n[2], n[3]>>

\* encodeVarint's loop, entered with n > 0.
RECURSIVE encodeVarintFrom(_)
encodeVarintFrom(n) ==
    IF n = U64(0) THEN <<>>
    ELSE IF U64Shr(n, 7) # U64(0)
    THEN <<(n[3] % 128) + 128>> \o encodeVarintFrom(U64Shr(n, 7))
    ELSE <<n[3] % 128>>

encodeVarint(n) == IF n = U64(0) THEN <<0>> ELSE encodeVarintFrom(n)

\* decodeVarint's loop from byte i (0-based) with the value n accumulated so
\* far.
RECURSIVE decodeVarintFrom(_, _, _, _)
decodeVarintFrom(data, i, n, shift) ==
    IF i >= Len(data) THEN [value |-> U64(0), n |-> 0]
    ELSE LET b == data[i + 1]
             n2 == U64OrShifted(n, b % 128, shift)
         IN IF b < 128 THEN [value |-> n2, n |-> i + 1]
            ELSE IF shift + 7 >= 64 THEN [value |-> U64(0), n |-> 0]
            ELSE decodeVarintFrom(data, i + 1, n2, shift + 7)

decodeVarint(data) == decodeVarintFrom(data, 0, U64(0), 0)

encodeTag(fieldNum, wireType) == encodeVarint(U64(fieldNum * 8 + wireType))

pbEncodeBytes(fieldNum, data) ==
    IF Len(data) = 0 THEN <<>>
    ELSE encodeTag(fieldNum, wireBytes) \o encodeVarint(U64(Len(data))) \o data

EncodeClientHello(ephemeral) ==
    pbEncodeBytes(fieldClientHello, pbEncodeBytes(fieldEphemeral, ephemeral))

EncodeClientFinish(static, payload) ==
    pbEncodeBytes(fieldClientFinish,
                  pbEncodeBytes(fieldStatic, static)
                  \o (IF Len(payload) > 0 THEN pbEncodeBytes(fieldPayload, payload) ELSE <<>>))

ErrInvalidProtobuf == "invalid protobuf data"
ErrFieldNotFound == "field not found"

\* findField's loop from position pos.
RECURSIVE findFieldFrom(_, _, _)
findFieldFrom(data, targetField, pos) ==
    IF pos >= Len(data) THEN [err |-> ErrFieldNotFound, bytes |-> <<>>]
    ELSE
    LET tag == decodeVarint(Slice(data, pos, Len(data))) IN
    IF tag.n = 0 THEN [err |-> ErrFieldNotFound, bytes |-> <<>>]
    ELSE
    LET p1 == pos + tag.n
        fieldNum == U64Int(U64Shr(tag.value, 3))
        wireType == tag.value[3] % 8
    IN CASE wireType = wireVarint ->
              LET v == decodeVarint(Slice(data, p1, Len(data)))
              IN IF v.n = 0 THEN [err |-> ErrInvalidProtobuf, bytes |-> <<>>]
                 ELSE findFieldFrom(data, targetField, p1 + v.n)
         [] wireType = wireFixed64 -> findFieldFrom(data, targetField, p1 + 8)
         [] wireType = wireFixed32 -> findFieldFrom(data, targetField, p1 + 4)
         [] wireType = wireBytes ->
              LET length == decodeVarint(Slice(data, p1, Len(data)))
                  p2 == p1 + length.n
              IN IF length.n = 0 THEN [err |-> ErrInvalidProtobuf, bytes |-> <<>>]
                 ELSE IF p2 + U64Int(length.value) > Len(data)
                 THEN [err |-> ErrInvalidProtobuf, bytes |-> <<>>]
                 ELSE IF fieldNum = targetField
                 THEN [err |-> ErrNone, bytes |-> Slice(data, p2, p2 + U64Int(length.value))]
                 ELSE findFieldFrom(data, targetField, p2 + U64Int(length.value))
         [] OTHER -> [err |-> ErrInvalidProtobuf, bytes |-> <<>>]

findField(data, targetField) == findFieldFrom(data, targetField, 0)

\* TLC evaluates a LET definition anew at each of its uses and a bound
\* variable once: where a result is costly and used more than once, it is
\* bound as the element of a singleton set.

\* DecodeServerHello from the bytes of the ServerHello message on.
decodeServerHelloFields(data, serverHelloBytes) ==
    LET ephemeral == findField(serverHelloBytes, fieldEphemeral)
        static == findField(serverHelloBytes, fieldStatic)
        payload == findField(serverHelloBytes, fieldPayload)
        result == [Ephemeral |-> IF ephemeral.err = ErrNone THEN ephemeral.bytes ELSE <<>>,
                   Static |-> IF static.err = ErrNone THEN static.bytes ELSE <<>>,
                   Payload |-> IF payload.err = ErrNone THEN payload.bytes ELSE <<>>]
    IN IF Len(result.Ephemeral) = 0 /\ Len(data) >= 32
       THEN [result EXCEPT !.Ephemeral = Slice(data, 0, 32),
                           !.Static = IF Len(data) > 32 THEN Slice(data, 32, Len(data))
                                      ELSE @]
       ELSE result

\* DecodeServerHello: the fields of the ServerHello; the error is always nil.
DecodeServerHello(data) ==
    CHOOSE result \in
        {decodeServerHelloFields(data, IF wrapped.err # ErrNone THEN data ELSE wrapped.bytes) :
            wrapped \in {findField(data, fieldServerHello)}} : TRUE

\* ------------------------------------------------ core: binary node codec
\* A Go string is the sequence of its bytes.  tagDictionary, line by line.
tagDictionary ==
    \* "", "", "", "", "", "", "", "", "", "", "", "", "", "", "", "",
    << <<>>, <<>>, <<>>, <<>>, <<>>, <<>>, <<>>, <<>>, <<>>, <<>>, <<>>, <<>>, <<>>, <<>>, <<>>,
       <<>>,
    \* "", "", "", "", "", "", "", "", "", "", "", "", "", "", "", "",
        <<>>, <<>>, <<>>, <<>>, <<>>, <<>>, <<>>, <<>>, <<>>, <<>>, <<>>, <<>>, <<>>, <<>>, <<>>,
       <<>>,
    \* "", "", "", "", "", "", "", "", "", "", "", "", "", "", "", "",
        <<>>, <<>>, <<>>, <<>>, <<>>, <<>>, <<>>, <<>>, <<>>, <<>>, <<>>, <<>>, <<>>, <<>>, <<>>,
       <<>>,
    \* "1", "2", "3", "4", "5", "6", "7", "8", "9", "10", "11", "12", "13", "14", "15",
        <<49>>, <<50>>, <<51>>, <<52>>, <<53>>, <<54>>, <<55>>, <<56>>, <<57>>, <<49, 48>>,
       <<49, 49>>, <<49, 50>>, <<49, 51>>, <<49, 52>>, <<49, 53>>,
    \* "16", "17", "18", "19", "20", "21", "22", "23", "24", "25", "26", "27", "28", "29", "30",
        <<49, 54>>, <<49, 55>>, <<49, 56>>, <<49, 57>>, <<50, 48>>, <<50, 49>>, <<50, 50>>,
       <<50, 51>>, <<50, 52>>, <<50, 53>>, <<50, 54>>, <<50, 55>>, <<50, 56>>, <<50, 57>>,
       <<51, 48>>,
    \* "account", "ack", "action", "active", "add", "after", "all", "allow", "and", "android",
        <<97, 99, 99, 111, 117, 110, 116>>, <<97, 99, 107>>, <<97, 99, 116, 105, 111, 110>>,
       <<97, 99, 116, 105, 118, 101>>, <<97, 100, 100>>, <<97, 102, 116, 101, 114>>,
       <<97, 108, 108>>, <<97, 108, 108, 111, 119>>, <<97, 110, 100>>,
       <<97, 110, 100, 114, 111, 105, 100>>,
    \* "announce", "archive", "available", "battery", "before", "block", "body", "broadcast",
        <<97, 110, 110, 111, 117, 110, 99, 101>>, <<97, 114, 99, 104, 105, 118, 101>>,
       <<97, 118, 97, 105, 108, 97, 98, 108, 101>>, <<98, 97, 116, 116, 101, 114, 121>>,
       <<98, 101, 102, 111, 114, 101>>, <<98, 108, 111, 99, 107>>, <<98, 111, 100, 121>>,
       <<98, 114, 111, 97, 100, 99, 97, 115, 116>>,
    \* "call", "call-creator", "call-id", "cancel", "caption", "chat", "child", "clear",
        <<99, 97, 108, 108>>, <<99, 97, 108, 108, 45, 99, 114, 101, 97, 116, 111, 114>>,
       <<99, 97, 108, 108, 45, 105, 100>>, <<99, 97, 110, 99, 101, 108>>,
       <<99, 97, 112, 116, 105, 111, 110>>, <<99, 104, 97, 116>>, <<99, 104, 105, 108, 100>>,
       <<99, 108, 101, 97, 114>>,
    \* "code", "composing", "config", "contact", "contacts", "count", "create", "creator",
        <<99, 111, 100, 101>>, <<99, 111, 109, 112, 111, 115, 105, 110, 103>>,
       <<99, 111, 110, 102, 105, 103>>, <<99, 111, 110, 116, 97, 99, 116>>,
       <<99, 111, 110, 116, 97, 99, 116, 115>>, <<99, 111, 117, 110, 116>>,
       <<99, 114, 101, 97, 116, 101>>, <<99, 114, 101, 97, 116, 111, 114>>,
    \* "decrypt", "delete", "demote", "description", "device", "devices", "disappearing",
        <<100, 101, 99, 114, 121, 112, 116>>, <<100, 101, 108, 101, 116, 101>>,
       <<100, 101, 109, 111, 116, 101>>, <<100, 101, 115, 99, 114, 105, 112, 116, 105, 111, 110>>,
       <<100, 101, 118, 105, 99, 101>>, <<100, 101, 118, 105, 99, 101, 115>>,
       <<100, 105, 115, 97, 112, 112, 101, 97, 114, 105, 110, 103>>,
    \* "done", "download", "edit", "elapsed", "encoding", "encrypt", "end", "ephemeral",
        <<100, 111, 110, 101>>, <<100, 111, 119, 110, 108, 111, 97, 100>>, <<101, 100, 105, 116>>,
       <<101, 108, 97, 112, 115, 101, 100>>, <<101, 110, 99, 111, 100, 105, 110, 103>>,
       <<101, 110, 99, 114, 121, 112, 116>>, <<101, 110, 100>>,
       <<101, 112, 104, 101, 109, 101, 114, 97, 108>>,
    \* "error", "event", "exit", "exposure", "failure", "false", "fan_out", "file",
        <<101, 114, 114, 111, 114>>, <<101, 118, 101, 110, 116>>, <<101, 120, 105, 116>>,
       <<101, 120, 112, 111, 115, 117, 114, 101>>, <<102, 97, 105, 108, 117, 114, 101>>,
       <<102, 97, 108, 115, 101>>, <<102, 97, 110, 95, 111, 117, 116>>, <<102, 105, 108, 101>>,
    \* "filename", "format", "from", "full", "g.us", "get", "gif", "group", "groups",
        <<102, 105, 108, 101, 110, 97, 109, 101>>, <<102, 111, 114, 109, 97, 116>>,
       <<102, 114, 111, 109>>, <<102, 117, 108, 108>>, <<103, 46, 117, 115>>, <<103, 101, 116>>,
       <<103, 105, 102>>, <<103, 114, 111, 117, 112>>, <<103, 114, 111, 117, 112, 115>>,
    \* "hash", "height", "host", "id", "image", "in", "inactive", "index", "info",
        <<104, 97, 115, 104>>, <<104, 101, 105, 103, 104, 116>>, <<104, 111, 115, 116>>,
       <<105, 100>>, <<105, 109, 97, 103, 101>>, <<105, 110>>,
       <<105, 110, 97, 99, 116, 105, 118, 101>>, <<105, 110, 100, 101, 120>>,
       <<105, 110, 102, 111>>,
    \* "interactive", "invite", "ios", "iq", "is", "item", "items", "jid", "keep",
        <<105, 110, 116, 101, 114, 97, 99, 116, 105, 118, 101>>, <<105, 110, 118, 105, 116, 101>>,
       <<105, 111, 115>>, <<105, 113>>, <<105, 115>>, <<105, 116, 101, 109>>,
       <<105, 116, 101, 109, 115>>, <<106, 105, 100>>, <<107, 101, 101, 112>>,
    \* "key", "keyvalue", "keys", "kind", "large", "last", "leave", "limit",
        <<107, 101, 121>>, <<107, 101, 121, 118, 97, 108, 117, 101>>, <<107, 101, 121, 115>>,
       <<107, 105, 110, 100>>, <<108, 97, 114, 103, 101>>, <<108, 97, 115, 116>>,
       <<108, 101, 97, 118, 101>>, <<108, 105, 109, 105, 116>>,
    \* "linked", "list", "live", "location", "locked", "md", "media", "media_type",
        <<108, 105, 110, 107, 101, 100>>, <<108, 105, 115, 116>>, <<108, 105, 118, 101>>,
       <<108, 111, 99, 97, 116, 105, 111, 110>>, <<108, 111, 99, 107, 101, 100>>, <<109, 100>>,
       <<109, 101, 100, 105, 97>>, <<109, 101, 100, 105, 97, 95, 116, 121, 112, 101>>,
    \* "member", "merry", "message", "messages", "meta", "mime", "mirror", "mms",
        <<109, 101, 109, 98, 101, 114>>, <<109, 101, 114, 114, 121>>,
       <<109, 101, 115, 115, 97, 103, 101>>, <<109, 101, 115, 115, 97, 103, 101, 115>>,
       <<109, 101, 116, 97>>, <<109, 105, 109, 101>>, <<109, 105, 114, 114, 111, 114>>,
       <<109, 109, 115>>,
    \* "modify", "msg", "mute", "name", "network", "new", "news", "newsletter", "none",
        <<109, 111, 100, 105, 102, 121>>, <<109, 115, 103>>, <<109, 117, 116, 101>>,
       <<110, 97, 109, 101>>, <<110, 101, 116, 119, 111, 114, 107>>, <<110, 101, 119>>,
       <<110, 101, 119, 115>>, <<110, 101, 119, 115, 108, 101, 116, 116, 101, 114>>,
       <<110, 111, 110, 101>>,
    \* "not", "notification", "notify", "number", "of", "offline", "opt", "order", "out",
        <<110, 111, 116>>, <<110, 111, 116, 105, 102, 105, 99, 97, 116, 105, 111, 110>>,
       <<110, 111, 116, 105, 102, 121>>, <<110, 117, 109, 98, 101, 114>>, <<111, 102>>,
       <<111, 102, 102, 108, 105, 110, 101>>, <<111, 112, 116>>, <<111, 114, 100, 101, 114>>,
       <<111, 117, 116>>,
    \* "owner", "paid", "pairing", "participant", "participants", "paused", "phash",
        <<111, 119, 110, 101, 114>>, <<112, 97, 105, 100>>, <<112, 97, 105, 114, 105, 110, 103>>,
       <<112, 97, 114, 116, 105, 99, 105, 112, 97, 110, 116>>,
       <<112, 97, 114, 116, 105, 99, 105, 112, 97, 110, 116, 115>>, <<112, 97, 117, 115, 101, 100>>,
       <<112, 104, 97, 115, 104>>,
    \* "phone", "photo", "picture", "pin", "pinned", "platform", "pn", "preview", "previous",
        <<112, 104, 111, 110, 101>>, <<112, 104, 111, 116, 111>>,
       <<112, 105, 99, 116, 117, 114, 101>>, <<112, 105, 110>>, <<112, 105, 110, 110, 101, 100>>,
       <<112, 108, 97, 116, 102, 111, 114, 109>>, <<112, 110>>,
       <<112, 114, 101, 118, 105, 101, 119>>, <<112, 114, 101, 118, 105, 111, 117, 115>>,
    \* "primary", "private", "promote", "props", "protocol", "push", "pushname", "query",
        <<112, 114, 105, 109, 97, 114, 121>>, <<112, 114, 105, 118, 97, 116, 101>>,
       <<112, 114, 111, 109, 111, 116, 101>>, <<112, 114, 111, 112, 115>>,
       <<112, 114, 111, 116, 111, 99, 111, 108>>, <<112, 117, 115, 104>>,
       <<112, 117, 115, 104, 110, 97, 109, 101>>, <<113, 117, 101, 114, 121>>,
    \* "quit", "quote", "rate", "read", "reason", "receipt", "received", "recipient", "remove",
        <<113, 117, 105, 116>>, <<113, 117, 111, 116, 101>>, <<114, 97, 116, 101>>,
       <<114, 101, 97, 100>>, <<114, 101, 97, 115, 111, 110>>, <<114, 101, 99, 101, 105, 112, 116>>,
       <<114, 101, 99, 101, 105, 118, 101, 100>>, <<114, 101, 99, 105, 112, 105, 101, 110, 116>>,
       <<114, 101, 109, 111, 118, 101>>,
    \* "removed", "reply", "report", "request", "require", "reset", "resource", "result",
        <<114, 101, 109, 111, 118, 101, 100>>, <<114, 101, 112, 108, 121>>,
       <<114, 101, 112, 111, 114, 116>>, <<114, 101, 113, 117, 101, 115, 116>>,
       <<114, 101, 113, 117, 105, 114, 101>>, <<114, 101, 115, 101, 116>>,
       <<114, 101, 115, 111, 117, 114, 99, 101>>, <<114, 101, 115, 117, 108, 116>>,
    \* "retry", "revoke", "s.whatsapp.net", "screen", "search", "sec", "secret", "seen",
        <<114, 101, 116, 114, 121>>, <<114, 101, 118, 111, 107, 101>>,
       <<115, 46, 119, 104, 97, 116, 115, 97, 112, 112, 46, 110, 101, 116>>,
       <<115, 99, 114, 101, 101, 110>>, <<115, 101, 97, 114, 99, 104>>, <<115, 101, 99>>,
       <<115, 101, 99, 114, 101, 116>>, <<115, 101, 101, 110>>,
    \* "selected", "self", "sender", "serial", "server", "session", "set", "settings",
        <<115, 101, 108, 101, 99, 116, 101, 100>>, <<115, 101, 108, 102>>,
       <<115, 101, 110, 100, 101, 114>>, <<115, 101, 114, 105, 97, 108>>,
       <<115, 101, 114, 118, 101, 114>>, <<115, 101, 115, 115, 105, 111, 110>>, <<115, 101, 116>>,
       <<115, 101, 116, 116, 105, 110, 103, 115>>,
    \* "sf", "shake", "share", "short", "side", "sig", "silent", "size", "sky", "slow",
        <<115, 102>>, <<115, 104, 97, 107, 101>>, <<115, 104, 97, 114, 101>>,
       <<115, 104, 111, 114, 116>>, <<115, 105, 100, 101>>, <<115, 105, 103>>,
       <<115, 105, 108, 101, 110, 116>>, <<115, 105, 122, 101>>, <<115, 107, 121>>,
       <<115, 108, 111, 119>>,
    \* "smax", "smbiz", "source", "sponsor", "srcjid", "starred", "start", "status",
        <<115, 109, 97, 120>>, <<115, 109, 98, 105, 122>>, <<115, 111, 117, 114, 99, 101>>,
       <<115, 112, 111, 110, 115, 111, 114>>, <<115, 114, 99, 106, 105, 100>>,
       <<115, 116, 97, 114, 114, 101, 100>>, <<115, 116, 97, 114, 116>>,
       <<115, 116, 97, 116, 117, 115>>,
    \* "sticky", "storage", "store", "stop", "subject", "subscribe", "success", "sync",
        <<115, 116, 105, 99, 107, 121>>, <<115, 116, 111, 114, 97, 103, 101>>,
       <<115, 116, 111, 114, 101>>, <<115, 116, 111, 112>>, <<115, 117, 98, 106, 101, 99, 116>>,
       <<115, 117, 98, 115, 99, 114, 105, 98, 101>>, <<115, 117, 99, 99, 101, 115, 115>>,
       <<115, 121, 110, 99>>,
    \* "system", "t", "tag", "taken", "target", "template", "terminate", "text", "thread",
        <<115, 121, 115, 116, 101, 109>>, <<116>>, <<116, 97, 103>>, <<116, 97, 107, 101, 110>>,
       <<116, 97, 114, 103, 101, 116>>, <<116, 101, 109, 112, 108, 97, 116, 101>>,
       <<116, 101, 114, 109, 105, 110, 97, 116, 101>>, <<116, 101, 120, 116>>,
       <<116, 104, 114, 101, 97, 100>>,
    \* "ticket", "time", "timestamp", "to", "token", "true", "type", "unavailable", "undefined",
        <<116, 105, 99, 107, 101, 116>>, <<116, 105, 109, 101>>,
       <<116, 105, 109, 101, 115, 116, 97, 109, 112>>, <<116, 111>>, <<116, 111, 107, 101, 110>>,
       <<116, 114, 117, 101>>, <<116, 121, 112, 101>>,
       <<117, 110, 97, 118, 97, 105, 108, 97, 98, 108, 101>>,
       <<117, 110, 100, 101, 102, 105, 110, 101, 100>>,
    \* "unique", "unknown", "unlock", "unread", "until", "update", "upgrade", "url", "user",
        <<117, 110, 105, 113, 117, 101>>, <<117, 110, 107, 110, 111, 119, 110>>,
       <<117, 110, 108, 111, 99, 107>>, <<117, 110, 114, 101, 97, 100>>, <<117, 110, 116, 105, 108>>,
       <<117, 112, 100, 97, 116, 101>>, <<117, 112, 103, 114, 97, 100, 101>>, <<117, 114, 108>>,
       <<117, 115, 101, 114>>,
    \* "users", "v", "value", "version", "video", "voip", "wa", "web", "webp", "width",
        <<117, 115, 101, 114, 115>>, <<118>>, <<118, 97, 108, 117, 101>>,
       <<118, 101, 114, 115, 105, 111, 110>>, <<118, 105, 100, 101, 111>>, <<118, 111, 105, 112>>,
       <<119, 97>>, <<119, 101, 98>>, <<119, 101, 98, 112>>, <<119, 105, 100, 116, 104>>,
    \* "write", "xmlns", "xmpp", "you", "years",
        <<119, 114, 105, 116, 101>>, <<120, 109, 108, 110, 115>>, <<120, 109, 112, 112>>,
       <<121, 111, 117>>, <<121, 101, 97, 114, 115>> >>

\* A BinaryNode is [Tag, Attrs, Content]: Attrs of a node to encode is the
\* sequence of the map's <<key, value>> pairs in the order the range loop
\* visits them, Attrs of a decoded node is the map itself; Content is
\* [kind |-> "nil"], or [kind, val] with kind "bytes", "string" or "list".
\* A nil *BinaryNode is NilNode.
NilNode == [nil |-> TRUE]

\* encodeString: the index of the first dictionary slot holding s, cut to a
\* byte, or the length and the bytes of s.
encodeString(s) ==
    IF s # <<>> /\ \E i \in 1..Len(tagDictionary) : tagDictionary[i] = s
    THEN <<((CHOOSE i \in 1..Len(tagDictionary) :
                /\ tagDictionary[i] = s
                /\ \A j \in 1..(i - 1) : tagDictionary[j] # s) - 1) % 256>>
    ELSE IF Len(s) < 128 THEN <<Len(s)>> \o s
    ELSE <<253, (Len(s) \div 256) % 256, Len(s) % 256>> \o s

encodeBytes(data) ==
    IF Len(data) < 256 THEN <<Len(data)>> \o data
    ELSE <<254, 0, (Len(data) \div 65536) % 256, (Len(data) \div 256) % 256,
           Len(data) % 256>> \o data

RECURSIVE encodeNode(_)
\* encodeNode's loops over the attributes and over the children.
RECURSIVE encodeAttrs(_)
encodeAttrs(attrs) ==
    IF attrs = <<>> THEN <<>>
    ELSE encodeString(Head(attrs)[1]) \o encodeString(Head(attrs)[2])
         \o encodeAttrs(Tail(attrs))
RECURSIVE encodeChildren(_)
encodeChildren(children) ==
    IF children = <<>> THEN <<>>
    ELSE encodeNode(Head(children)) \o encodeChildren(Tail(children))

encodeNode(node) ==
    IF node = NilNode THEN <<0>>
    ELSE LET hasContent == node.Content.kind # "nil"
             descriptor == Len(node.Attrs) * 2 + (IF hasContent THEN 1 ELSE 0)
         IN <<descriptor % 256>>
            \o encodeString(node.Tag)
            \o encodeAttrs(node.Attrs)
            \o CASE node.Content.kind = "bytes" -> encodeBytes(node.Content.val)
                 [] node.Content.kind = "string" -> encodeString(node.Content.val)
                 [] node.Content.kind = "list" ->
                      <<Len(node.Content.val) % 256>> \o encodeChildren(node.Content.val)
                 [] OTHER -> <<>>

EncodeBinaryNode(node) == encodeNode(node)

\* A bytes.Reader is its data and the number of bytes read.  reader.Read of
\* n bytes into a fresh buffer: what is left of the data, then zero bytes.
readBuf(data, pos, n) ==
    [i \in 1..n |-> IF pos + i <= Len(data) THEN data[pos + i] ELSE 0]
\* binary.Read of a big-endian unsigned integer of n bytes (n <= 3 bytes of
\* which may be non-zero here): 0 when fewer than n bytes are left.
readUint(data, pos, n) ==
    IF pos + n > Len(data) THEN 0
    ELSE IF n = 2 THEN data[pos + 1] * 256 + data[pos + 2]
    ELSE IF data[pos + 1] # 0 THEN 1073741824
    ELSE data[pos + 2] * 65536 + data[pos + 3] * 256 + data[pos + 4]
\* The position after a Read or binary.Read of n bytes.
advance(data, pos, n) == IF pos + n > Len(data) THEN Len(data) ELSE pos + n

ErrEOF == "EOF"

decodeString(data, pos) ==
    IF pos >= Len(data) THEN [err |-> ErrEOF, val |-> <<>>, pos |-> pos]
    ELSE LET b == data[pos + 1] IN
         IF b < Len(tagDictionary) /\ tagDictionary[b + 1] # <<>>
         THEN [err |-> ErrNone, val |-> tagDictionary[b + 1], pos |-> pos + 1]
         ELSE LET length == IF b = 253 THEN readUint(data, pos + 1, 2) ELSE b
                  p == IF b = 253 THEN advance(data, pos + 1, 2) ELSE pos + 1
              IN [err |-> ErrNone, val |-> readBuf(data, p, length),
                  pos |-> advance(data, p, length)]

decodeBytes(data, pos) ==
    IF pos >= Len(data) THEN [err |-> ErrEOF, val |-> <<>>, pos |-> pos]
    ELSE LET b == data[pos + 1]
             length == IF b = 254 THEN readUint(data, pos + 1, 4) ELSE b
             p == IF b = 254 THEN advance(data, pos + 1, 4) ELSE pos + 1
         IN [err |-> ErrNone, val |-> readBuf(data, p, length),
             pos |-> advance(data, p, length)]

\* decodeNode's loop over numAttrs attributes, from the map attrs.
RECURSIVE decodeAttrs(_, _, _, _)
decodeAttrs(data, pos, numAttrs, attrs) ==
    IF numAttrs = 0 THEN [err |-> ErrNone, val |-> attrs, pos |-> pos]
    ELSE LET key == decodeString(data, pos) IN
         IF key.err # ErrNone THEN [err |-> key.err, val |-> attrs, pos |-> key.pos]
         ELSE LET val == decodeString(data, key.pos) IN
         IF val.err # ErrNone THEN [err |-> val.err, val |-> attrs, pos |-> val.pos]
         ELSE decodeAttrs(data, val.pos, numAttrs - 1,
                          [k \in DOMAIN attrs \cup {key.val} |->
                              IF k = key.val THEN val.val ELSE attrs[k]])

RECURSIVE decodeNode(_, _)
\* decodeNode's loop over count children, from the children decoded so far.
RECURSIVE decodeChildren(_, _, _, _)
decodeChildren(data, pos, count, children) ==
    IF count = 0 THEN [err |-> ErrNone, val |-> children, pos |-> pos]
    ELSE LET child == decodeNode(data, pos) IN
         IF child.err # ErrNone THEN [err |-> child.err, val |-> children, pos |-> child.pos]
         ELSE decodeChildren(data, child.pos, count - 1, Append(children, child.val))

decodeNode(data, pos) ==
    IF pos >= Len(data) THEN [err |-> ErrEOF, val |-> NilNode, pos |-> pos]
    ELSE LET descriptor == data[pos + 1] IN
    IF descriptor = 0 THEN [err |-> ErrNone, val |-> NilNode, pos |-> pos + 1]
    ELSE LET tag == decodeString(data, pos + 1) IN
    IF tag.err # ErrNone THEN [err |-> tag.err, val |-> NilNode, pos |-> tag.pos]
    ELSE LET attrs == decodeAttrs(data, tag.pos, descriptor \div 2, <<>>) IN
    IF attrs.err # ErrNone THEN [err |-> attrs.err, val |-> NilNode, pos |-> attrs.pos]
    ELSE IF descriptor % 2 = 0
    THEN [err |-> ErrNone, pos |-> attrs.pos,
          val |-> [Tag |-> tag.val, Attrs |-> attrs.val, Content |-> [kind |-> "nil"]]]
    ELSE LET atEnd == attrs.pos >= Len(data)
             \* reader.ReadByte, reader.UnreadByte: at the end of the data
             \* the read fails and the unread steps back over the last byte
             contentType == IF atEnd THEN 0 ELSE data[attrs.pos + 1]
             count == IF atEnd THEN data[attrs.pos] ELSE contentType
             afterCount == IF atEnd THEN attrs.pos ELSE attrs.pos + 1
    IN
    IF contentType < 128
    THEN LET children == decodeChildren(data, afterCount, count, <<>>)
         IN IF children.err # ErrNone
            THEN [err |-> children.err, val |-> NilNode, pos |-> children.pos]
            ELSE [err |-> ErrNone, pos |-> children.pos,
                  val |-> [Tag |-> tag.val, Attrs |-> attrs.val,
                           Content |-> [kind |-> "list", val |-> children.val]]]
    ELSE LET bytes == decodeBytes(data, attrs.pos)
         IN [err |-> ErrNone, pos |-> bytes.pos,
             val |-> [Tag |-> tag.val, Attrs |-> attrs.val,
                      Content |-> [kind |-> "bytes", val |-> bytes.val]]]

DecodeBinaryNode(data) == decodeNode(data, 0)

\* ------------------------------------------------------ core.NoiseHandler
\* The cryptographic primitives are symbolic.  A SHA-256 chain value is the
\* pair of what was hashed, an HKDF output is the pair of its halves, each
\* named by salt and input key material, an X25519 result is named by the
\* private key and the peer's public key bytes.  A sealed text is opaque:
\* gcmOpen accepts exactly the texts the peer sealed, under the key, nonce and
\* associated data the peer used.

NoiseModeBytes == Bytes(32, 78)
NoiseHeader == <<87, 65, 6, 3>>
\* The client's key pairs (rand.Read in NewNoiseHandler).
ephemeralPrivate == 1
staticPrivate == 2
ephemeralPublic == Bytes(32, 101)
staticPublic == Bytes(32, 115)
\* The server's key material and the all-zero point of small order.
ServerEphemeralKey == Bytes(32, 69)
ServerStaticKey == Bytes(32, 83)
LowOrderPoint == Bytes(32, 0)
CipherByte == 199
TagSize == 16

\* A uint32 counter is the pair <<high half, low half>> of 16-bit halves.
HalfWord == 65536
CounterZero == <<0, 0>>
CounterInc(ctr) ==
    IF ctr[2] + 1 < HalfWord THEN <<ctr[1], ctr[2] + 1>>
    ELSE <<(ctr[1] + 1) % HalfWord, 0>>
\* ctr + k * 2^16 (mod 2^32)
CounterAddBlocks(ctr, k) == <<(ctr[1] + k) % HalfWord, ctr[2]>>
CounterLess(a, b) == a[1] < b[1] \/ (a[1] = b[1] /\ a[2] < b[2])

sha256(prev, data) == <<prev, data>>
hkdf(ikm, salt) == [lo |-> <<0, salt, ikm>>, hi |-> <<1, salt, ikm>>]
X25519(privateKey, publicKey) ==
    [err |-> publicKey = LowOrderPoint, shared |-> <<privateKey>> \o publicKey]
gcmSeal(key, iv, plaintext, aad) == Bytes(Len(plaintext) + TagSize, CipherByte)

\* What the server holds after it sent its ServerHello: the transcript hash
\* and the key under which it sealed its static key with nonce 0.
ServerHelloHash ==
    sha256(sha256(sha256(NoiseModeBytes, NoiseHeader), ephemeralPublic), ServerEphemeralKey)
ServerHelloKey == hkdf(X25519(ephemeralPrivate, ServerEphemeralKey).shared, NoiseModeBytes)
ServerStaticCiphertext == Bytes(48, 67)
\* The same text with its last byte altered.
TamperedStaticCiphertext == [i \in 1..48 |-> IF i = 48 THEN 68 ELSE 67]
\* The key the server seals its transport messages with after a handshake in
\* which its static key was opened and the three DH results were mixed.
ServerTransportKey ==
    LET k2 == hkdf(X25519(ephemeralPrivate, ServerStaticKey).shared, ServerHelloKey.lo)
        k3 == hkdf(X25519(staticPrivate, ServerEphemeralKey).shared, k2.lo)
    IN hkdf(<<>>, k3.lo).hi
\* A transport message of the server: a marker byte and the nonce (counter
\* pair) it was sealed with; an altered text carries the other marker.
SealedMarker == 160
AlteredMarker == 161
PlainMarker == 80
TransportCiphertext(ctr, altered) ==
    <<IF altered THEN AlteredMarker ELSE SealedMarker, ctr[1], ctr[2]>>
IsTransportCiphertext(ct) == Len(ct) = 3 /\ ct[1] \in {SealedMarker, AlteredMarker}

gcmOpen(key, iv, ciphertext, aad) ==
    IF /\ ciphertext = ServerStaticCiphertext
       /\ key = ServerHelloKey.hi /\ iv = CounterZero /\ aad = ServerHelloHash
    THEN [err |-> FALSE, plaintext |-> ServerStaticKey]
    ELSE IF /\ Len(ciphertext) = 3
            /\ ciphertext[1] = SealedMarker
            /\ key = ServerTransportKey /\ iv = <<ciphertext[2], ciphertext[3]>>
            /\ aad = <<>>
    THEN [err |-> FALSE, plaintext |-> <<PlainMarker, ciphertext[2], ciphertext[3]>>]
    ELSE [err |-> TRUE, plaintext |-> <<>>]

\* An authenticate without the isFinished guard.
authenticateAlways(n, data) == [n EXCEPT !.hash = sha256(@, data)]

\* authenticate: the transcript hash absorbs data until the handshake is
\* finished.
authenticate(n, data) ==
    IF ~n.isFinished THEN [n EXCEPT !.hash = sha256(@, data)] ELSE n

\* initializeState, as NewNoiseHandler calls it.
NewNoiseHandler ==
    authenticate(
      authenticate([hash |-> NoiseModeBytes, salt |-> NoiseModeBytes,
                    encKey |-> NoiseModeBytes, decKey |-> NoiseModeBytes,
                    readCounter |-> CounterZero, writeCounter |-> CounterZero,
                    isFinished |-> FALSE, serverEphemeral |-> <<>>,
                    frameBuffer |-> <<>>],
                   NoiseHeader),
      ephemeralPublic)

generateIV(counter) == counter

\* encrypt: the handler afterwards, the sealed text, and the (key, nonce) of
\* the AEAD call.
encrypt(n, plaintext) ==
    LET iv == generateIV(n.writeCounter)
        ciphertext == gcmSeal(n.encKey, iv, plaintext, n.hash)
    IN [n |-> authenticate([n EXCEPT !.writeCounter = CounterInc(@)], ciphertext),
        err |-> FALSE, out |-> ciphertext,
        aead |-> <<[key |-> n.encKey, iv |-> iv]>>]

\* A decrypt that takes its nonce from writeCounter in Transport mode too.
decryptOneCounter(n, ciphertext) ==
    LET iv == generateIV(n.writeCounter)
        n1 == [n EXCEPT !.writeCounter = CounterInc(@)]
        opened == gcmOpen(n.decKey, iv, ciphertext, n.hash)
    IN IF opened.err
       THEN [n |-> n1, err |-> TRUE, out |-> <<>>,
             aead |-> <<[key |-> n.decKey, iv |-> iv]>>]
       ELSE [n |-> authenticate(n1, ciphertext), err |-> FALSE, out |-> opened.plaintext,
             aead |-> <<[key |-> n.decKey, iv |-> iv]>>]

decrypt(n, ciphertext) ==
    LET iv == IF n.isFinished THEN generateIV(n.readCounter) ELSE generateIV(n.writeCounter)
        n1 == IF n.isFinished THEN [n EXCEPT !.readCounter = CounterInc(@)]
              ELSE [n EXCEPT !.writeCounter = CounterInc(@)]
        opened == gcmOpen(n.decKey, iv, ciphertext, n.hash)
    IN IF opened.err
       THEN [n |-> n1, err |-> TRUE, out |-> <<>>,
             aead |-> <<[key |-> n.decKey, iv |-> iv]>>]
       ELSE [n |-> authenticate(n1, ciphertext), err |-> FALSE, out |-> opened.plaintext,
             aead |-> <<[key |-> n.decKey, iv |-> iv]>>]

mixIntoKey(n, data) ==
    LET key == hkdf(data, n.salt)
    IN [n EXCEPT !.salt = key.lo, !.encKey = key.hi, !.decKey = key.hi,
                 !.readCounter = CounterZero, !.writeCounter = CounterZero]

finishInit(n) ==
    LET key == hkdf(<<>>, n.salt)
    IN [n EXCEPT !.encKey = key.lo, !.decKey = key.hi, !.hash = <<>>,
                 !.readCounter = CounterZero, !.writeCounter = CounterZero,
                 !.isFinished = TRUE]

dh(privateKey, publicKey) ==
    IF Len(publicKey) # 32 THEN [err |-> TRUE, shared |-> <<>>]
    ELSE X25519(privateKey, publicKey)

\* The 3-byte big-endian length prefix.
LengthPrefix(len) == <<len \div 65536, (len \div 256) % 256, len % 256>>

GenerateClientHello(n) ==
    LET clientHelloProto == EncodeClientHello(ephemeralPublic)
    IN NoiseHeader \o LengthPrefix(Len(clientHelloProto)) \o clientHelloProto

\* ProcessServerHello after the decryption of the server's static key: the
\* second DH is mixed in when the key was opened.
processServerStatic(serverHello, decryptedStatic) ==
    LET shared2 == dh(ephemeralPrivate, decryptedStatic.out)
    IN [n |-> IF ~decryptedStatic.err /\ Len(decryptedStatic.out) = 32 /\ ~shared2.err
              THEN mixIntoKey(decryptedStatic.n, shared2.shared)
              ELSE decryptedStatic.n,
        err |-> FALSE, parsed |-> TRUE, serverHello |-> serverHello,
        aead |-> decryptedStatic.aead, staticRejected |-> decryptedStatic.err]

\* ProcessServerHello from the parsed ServerHello on.
processServerHello(n, serverHello) ==
    LET n1 == authenticate([n EXCEPT !.serverEphemeral = serverHello.Ephemeral],
                           serverHello.Ephemeral)
        shared1 == dh(ephemeralPrivate, serverHello.Ephemeral)
    IN IF shared1.err
       THEN [n |-> n1, err |-> TRUE, parsed |-> TRUE, serverHello |-> serverHello,
             aead |-> <<>>, staticRejected |-> FALSE]
       ELSE IF Len(serverHello.Static) >= 48
       THEN CHOOSE r \in
              {processServerStatic(serverHello, decryptedStatic) :
                 decryptedStatic \in {decrypt(mixIntoKey(n1, shared1.shared),
                                              Slice(serverHello.Static, 0, 48))}} : TRUE
       ELSE [n |-> mixIntoKey(n1, shared1.shared), err |-> FALSE, parsed |-> TRUE,
             serverHello |-> serverHello, aead |-> <<>>, staticRejected |-> FALSE]

\* The ServerHello as ProcessServerHello takes it from the bytes: the decoded
\* fields, or the first 32 bytes as the ephemeral key and the rest as static.
parseServerHello(data) ==
    CHOOSE r \in
        {IF Len(decoded.Ephemeral) # 32
         THEN [Ephemeral |-> Slice(data, 0, 32),
               Static |-> IF Len(data) > 32 THEN Slice(data, 32, Len(data)) ELSE <<>>]
         ELSE [Ephemeral |-> decoded.Ephemeral, Static |-> decoded.Static] :
            decoded \in {DecodeServerHello(data)}} : TRUE

\* ProcessServerHello: the handler afterwards (it is changed also when the
\* call fails), the error, the parse it used and the AEAD calls it made.
ProcessServerHello(n, data) ==
    IF Len(data) < 32
    THEN [n |-> n, err |-> TRUE, parsed |-> FALSE,
          serverHello |-> [Ephemeral |-> <<>>, Static |-> <<>>],
          aead |-> <<>>, staticRejected |-> FALSE]
    ELSE CHOOSE r \in
           {processServerHello(n, serverHello) :
              serverHello \in {parseServerHello(data)}} : TRUE

\* GenerateClientFinish from the sealed static key on.
generateClientFinishFrom(encryptedStaticKey) ==
    LET shared3 == dh(staticPrivate, encryptedStaticKey.n.serverEphemeral)
    IN [n |-> finishInit(IF Len(encryptedStaticKey.n.serverEphemeral) = 32 /\ ~shared3.err
                         THEN mixIntoKey(encryptedStaticKey.n, shared3.shared)
                         ELSE encryptedStaticKey.n),
        err |-> FALSE,
        out |-> EncodeClientFinish(encryptedStaticKey.out, <<>>),
        aead |-> encryptedStaticKey.aead]

GenerateClientFinish(n) ==
    CHOOSE r \in {generateClientFinishFrom(encryptedStaticKey) :
                    encryptedStaticKey \in {encrypt(n, staticPublic)}} : TRUE

IsHandshakeComplete(n) == n.isFinished

\* Encrypt (public): the data itself when the handshake is not finished or
\* encrypt fails.
Encrypt(n, data) ==
    IF ~n.isFinished THEN [n |-> n, out |-> data, sealed |-> FALSE, aead |-> <<>>]
    ELSE CHOOSE r \in
           {IF encrypted.err
            THEN [n |-> n, out |-> data, sealed |-> FALSE, aead |-> <<>>]
            ELSE [n |-> encrypted.n, out |-> encrypted.out, sealed |-> TRUE,
                  aead |-> encrypted.aead] :
              encrypted \in {encrypt(n, data)}} : TRUE

\* Decrypt (public): the data itself when the handshake is not finished or
\* decrypt fails.
Decrypt(n, data) ==
    IF ~n.isFinished THEN [n |-> n, out |-> data, opened |-> FALSE, aead |-> <<>>]
    ELSE CHOOSE r \in
           {IF decrypted.err
            THEN [n |-> decrypted.n, out |-> data, opened |-> FALSE,
                  aead |-> decrypted.aead]
            ELSE [n |-> decrypted.n, out |-> decrypted.out, opened |-> TRUE,
                  aead |-> decrypted.aead] :
              decrypted \in {decrypt(n, data)}} : TRUE

\* EncodeFrame: the payload (sealed when the handshake is finished) behind
\* its length in three bytes, the first byte(len >> 16), the others
\* uint16(len & 0xFFFF) big-endian.
EncodeFrame(n, data) ==
    CHOOSE r \in
      {[n |-> sealed.n, err |-> sealed.err,
        out |-> IF sealed.err THEN <<>>
                ELSE <<(Len(sealed.out) \div 65536) % 256,
                       (Len(sealed.out) \div 256) % 256,
                       Len(sealed.out) % 256>> \o sealed.out] :
         sealed \in {IF n.isFinished THEN encrypt(n, data)
                      ELSE [n |-> n, err |-> FALSE, out |-> data]}} : TRUE

\* DecodeFrame's loop: frames are detached from n.frameBuffer while it holds
\* the three length bytes and the payload they announce.
RECURSIVE decodeFrames(_, _)
decodeFrames(n, frames) ==
    IF Len(n.frameBuffer) < 3 THEN [n |-> n, frames |-> frames, err |-> FALSE]
    ELSE LET size == n.frameBuffer[1] * 65536 + n.frameBuffer[2] * 256 + n.frameBuffer[3] IN
         IF Len(n.frameBuffer) < 3 + size THEN [n |-> n, frames |-> frames, err |-> FALSE]
         ELSE LET frame == Slice(n.frameBuffer, 3, 3 + size)
                  n1 == [n EXCEPT !.frameBuffer = Slice(@, 3 + size, Len(@))]
              IN IF n.isFinished
                 THEN CHOOSE r \in
                        {IF decrypted.err
                         THEN [n |-> decrypted.n, frames |-> frames, err |-> TRUE]
                         ELSE decodeFrames(decrypted.n, Append(frames, decrypted.out)) :
                           decrypted \in {decrypt(n1, frame)}} : TRUE
                 ELSE decodeFrames(n1, Append(frames, frame))

\* A DecodeFrame that forgets what the earlier calls left in the buffer.
DecodeFrameFresh(n, data) ==
    decodeFrames([n EXCEPT !.frameBuffer = data], <<>>)

\* DecodeFrame: the data is appended to the buffer, then the loop.
DecodeFrame(n, data) ==
    decodeFrames([n EXCEPT !.frameBuffer = @ \o data], <<>>)

\* ------------------------------------------ one Connection, byte by byte
\* The second specification follows the Connection of one session from the
\* start of Connection.Connect, with the NoiseHandler's fields, the bytes
\* written to the WebSocket and the content of msgChan.  The server is the
\* environment: it answers the ClientHello with one of the Hellos, whole or
\* split in two, and sends transport messages after the ClientFinish.

NoiseSessionID == "s1"

HelloValid ==
    pbEncodeBytes(fieldServerHello,
                  pbEncodeBytes(fieldEphemeral, ServerEphemeralKey)
                  \o pbEncodeBytes(fieldStatic, ServerStaticCiphertext))
\* The ServerHello with the sealed static key altered in transit.
HelloTampered ==
    pbEncodeBytes(fieldServerHello,
                  pbEncodeBytes(fieldEphemeral, ServerEphemeralKey)
                  \o pbEncodeBytes(fieldStatic, TamperedStaticCiphertext))
\* 32 raw bytes that are a point of small order: X25519 rejects it.
HelloLowOrder == LowOrderPoint
\* Fewer than 32 bytes, after which the server closes.
HelloShort == Bytes(10, 7)
\* 32 bytes that are no protobuf message (wire type 7).
HelloGarbage == Bytes(32, 7)
HelloNone == <<>>
Hellos == {HelloValid, HelloTampered, HelloLowOrder, HelloShort, HelloGarbage, HelloNone}
\* The places where the server may split its ServerHello in two WebSocket
\* messages (0: one message).
SplitPoints(hello) == IF hello = HelloValid THEN 0..(Len(hello) - 1) ELSE {0}
\* Lengths of the messages a server sends after a rejected ServerHello.
StrayLens == {1, 64}
\* The resume node of buildResumeNode as EncodeBinaryNode writes it: the
\* descriptor, the tag iq and the attributes type=set, to=s.whatsapp.net as
\* the low bytes of their dictionary indices.
ResumeNode == <<4, 156, 46, 3, 43, 247>>

NewConnection ==
    [state |-> StateDisconnected, ws |-> "nil", msgChan |-> <<>>, errorChan |-> 0,
     pc |-> "connect", rcv |-> "none"]

VARIABLES
    mainPc,        \* main(): "boot", "serving", "shutdown"
    loadIdx,       \* LoadPersistedSessions: entries of the listing already visited
    creds,         \* disk: creds[id] iff <dataDir>/<id>/creds.json exists
    sessions,      \* SessionManager.sessions: id -> client object or NoClient
    ret,           \* error returned by the last SessionManager call
    dispatched,    \* event types handed to webhook.Dispatcher.Dispatch
    ID,            \* WAClient.ID (NoId: object not allocated)
    status,        \* WAClient.status
    qrCode,        \* WAClient.qrCode is non-empty
    clientPc,      \* goroutine of CreateSession running WAClient.Connect
    state,         \* Connection.state
    ws,            \* Connection.ws: "nil", "open", "closed"
    driverPc,      \* goroutine of WAClient.Connect running Connection.Connect
    rcvPc,         \* goroutine receiveLoop: "none","running","cancelled","stopped"
    msgChan,       \* number of messages queued in Connection.msgChan
    errorChan,     \* number of errors queued in Connection.errorChan
    serverData,    \* performHandshake: len(serverData)
    processAttempts, \* performHandshake: processAttempts
    sent,          \* kinds of the messages written to the WebSocket, in order
    readFailedAuth, \* history: the receive loop's read failed while Authenticated
    wa,            \* second specification: WAClient.status and qrCode
    conn,          \* Connection: state, ws, msgChan (content), errorChan, and
                   \* the positions of the driver (pc) and of receiveLoop (rcv);
                   \* a queued message tells whether it was read after the
                   \* handshake finished and whether Decrypt opened it
    noise,         \* Connection.noise: the NoiseHandler's fields
    hs,            \* performHandshake's serverData and processAttempts
    server,        \* the server: its ServerHello, how it is split, what it sent
    wire,          \* the messages written to the WebSocket, in order, each with
                   \* whether its payload was built after the handshake
                   \* finished and whether it is a sealed text
    hist,          \* history: nonce 0 per key, rejected static key, dropped
                   \* message, expired QR code
    codec          \* third specification: one call of a codec function, its
                   \* input and, once made, its result

mgrVars == <<mainPc, loadIdx, creds, sessions, ret, dispatched>>
clientVars == <<ID, status, qrCode, clientPc>>
connVars == <<state, ws, driverPc, rcvPc, msgChan, errorChan, serverData,
              processAttempts, sent, readFailedAuth>>
vars == <<mainPc, loadIdx, creds, sessions, ret, dispatched, ID, status, qrCode, clientPc,
          state, ws, driverPc, rcvPc, msgChan, errorChan, serverData,
          processAttempts, sent, readFailedAuth,
          wa, conn, noise, hs, server, wire, hist, codec>>

Init ==
    /\ mainPc = "boot"
    /\ loadIdx = 0
    /\ creds \in [Ids -> BOOLEAN]
    /\ sessions = [i \in Ids |-> NoClient]
    /\ ret = ErrNone
    /\ dispatched = {}
    /\ ID = [c \in Clients |-> NoId]
    /\ status = [c \in Clients |-> StatusInitializing]
    /\ qrCode = [c \in Clients |-> FALSE]
    /\ clientPc = [c \in Clients |-> "none"]
    /\ state = [c \in Clients |-> StateDisconnected]
    /\ ws = [c \in Clients |-> "nil"]
    /\ driverPc = [c \in Clients |-> "none"]
    /\ rcvPc = [c \in Clients |-> "none"]
    /\ msgChan = [c \in Clients |-> 0]
    /\ errorChan = [c \in Clients |-> 0]
    /\ serverData = [c \in Clients |-> 0]
    /\ processAttempts = [c \in Clients |-> 0]
    /\ sent = [c \in Clients |-> <<>>]
    /\ readFailedAuth = [c \in Clients |-> FALSE]
    /\ wa = [status |-> StatusInitializing, qrCode |-> FALSE]
    /\ conn = NewConnection
    /\ noise = <<>>    \* Connection.noise is nil until a handshake starts
    /\ hs = [serverData |-> <<>>, processAttempts |-> 0]
    /\ server = [hello |-> HelloNone, split |-> 0, part |-> 0, stray |-> 0,
                 sendCounter |-> CounterZero, transport |-> 0, budget |-> 0,
                 bursts |-> 0]
    /\ wire = <<>>
    /\ hist = [zeroKeys |-> {}, nonceReused |-> FALSE, staticRejected |-> FALSE,
               dropped |-> FALSE, qrExpired |-> FALSE, qrCalls |-> 0]
    /\ codec = [kind |-> "none"]

\* ------------------------------------------------------ client.WAClient

Allocated(c) == ID[c] # NoId
HasFree == \E c \in Clients : ~Allocated(c)
\* The next object the allocator hands out.
NewIndex == CHOOSE c \in Clients : ~Allocated(c) /\ \A d \in Clients : d < c => Allocated(d)

\* NewWAClient: a fresh object with the identifier and status INITIALIZING.
NewWAClient(c, id) ==
    /\ ID' = [ID EXCEPT ![c] = id]
    /\ status' = [status EXCEPT ![c] = StatusInitializing]

\* WAClient.Disconnect, applied to every client of the set S.
Disconnect(S) ==
    /\ status' = [c \in Clients |-> IF c \in S THEN StatusDisconnected ELSE status[c]]
    /\ qrCode' = [c \in Clients |-> IF c \in S THEN FALSE ELSE qrCode[c]]

\* ------------------------------------------------- client.SessionManager

GetSession(id) == [client |-> sessions[id], exists |-> sessions[id] # NoClient]

\* GetStats: under the read lock, the size of the map and one pass over its
\* clients; INITIALIZING and DISCONNECTED match no counting case.
GetStats ==
    LET ids == {i \in Ids : sessions[i] # NoClient}
        withStatus(set) == Cardinality({i \in ids : status[sessions[i]] \in set})
    IN [Total |-> Cardinality(ids),
        Active |-> withStatus({StatusReady}),
        Ready |-> withStatus({StatusReady}),
        Initializing |-> withStatus({StatusConnecting, StatusQRReady})]

\* A CreateSession without the exists check: the new client takes the place
\* of the registered one.
CreateSessionNoCheck(id) ==
    /\ HasFree
    /\ NewWAClient(NewIndex, id)
    /\ sessions' = [sessions EXCEPT ![id] = NewIndex]
    /\ clientPc' = [clientPc EXCEPT ![NewIndex] = "spawned"]
    /\ ret' = ErrNone
    /\ UNCHANGED <<creds, qrCode, connVars>>

\* A CreateSession that starts the connect goroutine before it looks the
\* identifier up: a duplicate create fails but connects the registered
\* client a second time.
CreateSessionConnectFirst(id) ==
    IF sessions[id] # NoClient
    THEN /\ ret' = ErrSessionExists
         /\ clientPc' = [clientPc EXCEPT ![sessions[id]] = "spawned"]
         /\ UNCHANGED <<sessions, creds, ID, status, qrCode, connVars>>
    ELSE /\ HasFree
         /\ NewWAClient(NewIndex, id)
         /\ sessions' = [sessions EXCEPT ![id] = NewIndex]
         /\ clientPc' = [clientPc EXCEPT ![NewIndex] = "spawned"]
         /\ ret' = ErrNone
         /\ UNCHANGED <<creds, qrCode, connVars>>

CreateSession(id) ==
    IF sessions[id] # NoClient
    THEN /\ ret' = ErrSessionExists
         /\ UNCHANGED <<sessions, creds, clientVars, connVars>>
    ELSE /\ HasFree
         /\ NewWAClient(NewIndex, id)
         /\ sessions' = [sessions EXCEPT ![id] = NewIndex]
         /\ clientPc' = [clientPc EXCEPT ![NewIndex] = "spawned"]
         /\ ret' = ErrNone
         /\ UNCHANGED <<creds, qrCode, connVars>>

\* A DeleteSession that disconnects the client and removes its directory but
\* leaves the map entry.
DeleteSessionKeepEntry(id) ==
    IF sessions[id] = NoClient
    THEN /\ ret' = ErrSessionNotFound
         /\ UNCHANGED <<sessions, creds, clientVars, connVars>>
    ELSE /\ Disconnect({sessions[id]})
         /\ creds' = [creds EXCEPT ![id] = FALSE]
         /\ ret' = ErrNone
         /\ UNCHANGED <<sessions, ID, clientPc, connVars>>

DeleteSession(id) ==
    IF sessions[id] = NoClient
    THEN /\ ret' = ErrSessionNotFound
         /\ UNCHANGED <<sessions, creds, clientVars, connVars>>
    ELSE /\ Disconnect({sessions[id]})
         /\ sessions' = [sessions EXCEPT ![id] = NoClient]
         /\ creds' = [creds EXCEPT ![id] = FALSE]
         /\ ret' = ErrNone
         /\ UNCHANGED <<ID, clientPc, connVars>>

DisconnectAll ==
    /\ Disconnect({sessions[i] : i \in Ids} \ {NoClient})
    /\ UNCHANGED <<sessions, creds, ret, ID, clientPc, connVars>>

\* The directory listing of the session root, in os.ReadDir's (sorted) order.
IdOrder == <<"s1", "s2">>

\* One iteration of LoadPersistedSessions' loop over the listing.
LoadPersistedSessions ==
    /\ mainPc = "boot"
    /\ loadIdx < Len(IdOrder)
    /\ loadIdx' = loadIdx + 1
    /\ IF creds[IdOrder[loadIdx + 1]]
       THEN CreateSession(IdOrder[loadIdx + 1])
       ELSE UNCHANGED <<sessions, creds, ret, clientVars, connVars>>
    /\ UNCHANGED <<mainPc, dispatched>>

\* main: the listing is exhausted, the API server starts.
ServerStart ==
    /\ mainPc = "boot"
    /\ loadIdx = Len(IdOrder)
    /\ mainPc' = "serving"
    /\ UNCHANGED <<loadIdx, creds, sessions, ret, dispatched, clientVars, connVars>>

\* main: the shutdown signal; DisconnectAll, then the server stops.
Shutdown ==
    /\ mainPc = "serving"
    /\ mainPc' = "shutdown"
    /\ DisconnectAll
    /\ UNCHANGED <<loadIdx, dispatched>>

\* handlers.SessionHandler.Create / Delete
SessionCreate(id) ==
    /\ mainPc = "serving"
    /\ CreateSession(id)
    /\ UNCHANGED <<mainPc, loadIdx, dispatched>>

SessionDelete(id) ==
    /\ mainPc = "serving"
    /\ DeleteSession(id)
    /\ UNCHANGED <<mainPc, loadIdx, dispatched>>

\* webhook.Dispatcher.Dispatch: the event type is handed to the dispatcher.
Dispatch(eventType) == dispatched' = dispatched \cup {eventType}

\* handlers.WebhookHandler.Test: the only caller of Dispatch.
WebhookTest ==
    /\ mainPc = "serving"
    /\ Dispatch(EventWebhookTest)
    /\ UNCHANGED <<mainPc, loadIdx, creds, sessions, ret, clientVars, connVars>>

\* ---------------------------------------------------- WAClient.Connect

\* The callback WAClient.Connect registers with SetOnQR.  WAClient.onQR has
\* no setter and is nil, so the callback ends after the status update.
OnQR(c) ==
    /\ status' = [status EXCEPT ![c] = StatusQRReady]
    /\ qrCode' = [qrCode EXCEPT ![c] = TRUE]

\* The callback WAClient.Connect registers with SetOnReady (WAClient.onReady
\* is nil as well).
OnReady(c) ==
    /\ status' = [status EXCEPT ![c] = StatusReady]
    /\ UNCHANGED qrCode

\* WAClient.Connect, run by the goroutine CreateSession started: the status
\* becomes CONNECTING, the Connection is created (NewConnection: state
\* Disconnected, empty channels), the callbacks are set, the goroutine that
\* runs Connection.Connect is started; after the 3 s sleep it returns nil.
\* The started goroutine's first statement, state = StateConnecting, touches
\* nothing another goroutine reads and is taken in the same step; it then
\* blocks in websocket.Dial.
WAClientConnect(c) ==
    /\ clientPc[c] = "spawned"
    /\ status' = [status EXCEPT ![c] = StatusConnecting]
    /\ state' = [state EXCEPT ![c] = StateConnecting]
    /\ driverPc' = [driverPc EXCEPT ![c] = "dial"]
    /\ clientPc' = [clientPc EXCEPT ![c] = "returned"]
    /\ UNCHANGED <<mgrVars, ID, qrCode, ws, rcvPc, msgChan, errorChan,
                   serverData, processAttempts, sent, readFailedAuth>>

\* The goroutine of WAClient.Connect after Connection.Connect returned an
\* error: the status becomes DISCONNECTED.
ConnectFailed(c) ==
    /\ driverPc[c] = "err"
    /\ driverPc' = [driverPc EXCEPT ![c] = "failed"]
    /\ status' = [status EXCEPT ![c] = StatusDisconnected]
    /\ UNCHANGED <<mgrVars, ID, qrCode, clientPc, state, ws, rcvPc, msgChan,
                   errorChan, serverData, processAttempts, sent, readFailedAuth>>

\* -------------------------------------------------- core.Connection.Connect
\* The context handed to Connection.Connect is never cancelled: WAClient
\* stores its cancel function in cancelCtx and nothing calls it.  The
\* ctx.Done() cases of the driver's selects are therefore never taken.

\* websocket.Dial: on failure Connect returns the error; on success the
\* state becomes Connected and the receive loop is started.
Dial(c) ==
    /\ driverPc[c] = "dial"
    /\ \E ok \in BOOLEAN :
         IF ok
         THEN /\ ws' = [ws EXCEPT ![c] = "open"]
              /\ state' = [state EXCEPT ![c] = StateConnected]
              /\ rcvPc' = [rcvPc EXCEPT ![c] = "running"]
              /\ driverPc' = [driverPc EXCEPT ![c] = "hello"]
         ELSE /\ driverPc' = [driverPc EXCEPT ![c] = "err"]
              /\ UNCHANGED <<ws, state, rcvPc>>
    /\ UNCHANGED <<mgrVars, clientVars, msgChan, errorChan, serverData,
                   processAttempts, sent, readFailedAuth>>

\* Connect's handling of a performHandshake error: cancelReceive(), ws.Close,
\* return the error.
HandshakeFailed(c) ==
    /\ rcvPc' = [rcvPc EXCEPT ![c] = IF @ = "running" THEN "cancelled" ELSE @]
    /\ ws' = [ws EXCEPT ![c] = "closed"]
    /\ driverPc' = [driverPc EXCEPT ![c] = "err"]
    /\ serverData' = [serverData EXCEPT ![c] = 0]
    /\ processAttempts' = [processAttempts EXCEPT ![c] = 0]

\* sendRaw: the write of one WebSocket message succeeds or fails.
sendRaw(c, kind, ok) ==
    sent' = [sent EXCEPT ![c] = IF ok THEN Append(@, kind) ELSE @]

\* performHandshake: send the client hello.
SendClientHello(c) ==
    /\ driverPc[c] = "hello"
    /\ \E ok \in BOOLEAN :
         /\ sendRaw(c, "ClientHello", ok)
         /\ IF ok
            THEN /\ driverPc' = [driverPc EXCEPT ![c] = "wait_sh"]
                 /\ UNCHANGED <<ws, rcvPc, serverData, processAttempts>>
            ELSE HandshakeFailed(c)
    /\ UNCHANGED <<mgrVars, clientVars, state, msgChan, errorChan, readFailedAuth>>

\* performHandshake: one chunk taken from msgChan.  n is the chunk's length,
\* ok the result of ProcessServerHello on the accumulated bytes.
RecvServerHello(c) ==
    /\ driverPc[c] = "wait_sh"
    /\ msgChan[c] > 0
    /\ \E n \in ChunkLens, ok \in BOOLEAN :
         LET total == serverData[c] + n
             attempts == processAttempts[c] + 1
         IN /\ total <= MaxServerData
            /\ msgChan' = [msgChan EXCEPT ![c] = @ - 1]
            /\ IF total < MinServerHello
               THEN /\ serverData' = [serverData EXCEPT ![c] = total]
                    /\ UNCHANGED <<processAttempts, driverPc, ws, rcvPc>>
               ELSE IF ok
               THEN /\ driverPc' = [driverPc EXCEPT ![c] = "finish"]
                    /\ serverData' = [serverData EXCEPT ![c] = 0]
                    /\ processAttempts' = [processAttempts EXCEPT ![c] = 0]
                    /\ UNCHANGED <<ws, rcvPc>>
               ELSE IF total >= minBytesForError /\ attempts >= maxProcessAttempts
               THEN HandshakeFailed(c)
               ELSE /\ serverData' = [serverData EXCEPT ![c] = total]
                    /\ processAttempts' = [processAttempts EXCEPT ![c] = attempts]
                    /\ UNCHANGED <<driverPc, ws, rcvPc>>
    /\ UNCHANGED <<mgrVars, clientVars, state, errorChan, sent, readFailedAuth>>

\* performHandshake: the 30 s timer fires.
HandshakeTimeout(c) ==
    /\ driverPc[c] = "wait_sh"
    /\ HandshakeFailed(c)
    /\ UNCHANGED <<mgrVars, clientVars, state, msgChan, errorChan, sent, readFailedAuth>>

\* hasCredentials: creds.json of the session exists.
hasCredentials(c) == creds[ID[c]]

\* startNewSession up to its select: the QR data is handed to onQR, then the
\* driver waits for the authentication message.
startNewSession(c) ==
    /\ OnQR(c)
    /\ driverPc' = [driverPc EXCEPT ![c] = "qr_wait"]

\* performHandshake: send the client finish; then Connect branches on
\* hasCredentials into resumeSession or startNewSession.
SendClientFinish(c) ==
    /\ driverPc[c] = "finish"
    /\ \E ok \in BOOLEAN :
         /\ sendRaw(c, "ClientFinish", ok)
         /\ IF ok
            THEN /\ IF hasCredentials(c)
                    THEN /\ driverPc' = [driverPc EXCEPT ![c] = "resume"]
                         /\ UNCHANGED <<status, qrCode>>
                    ELSE startNewSession(c)
                 /\ UNCHANGED <<ws, rcvPc, serverData, processAttempts>>
            ELSE /\ HandshakeFailed(c)
                 /\ UNCHANGED <<status, qrCode>>
    /\ UNCHANGED <<mgrVars, ID, clientPc, state, msgChan, errorChan, readFailedAuth>>

\* sendNode: encode, encrypt, sendRaw.
sendNode(c, ok) == sendRaw(c, "node", ok)

\* resumeSession up to its select: loadCredentials, then sendNode of the
\* resume node.  An error makes Connect fall back to startNewSession.
ResumeSession(c) ==
    /\ driverPc[c] = "resume"
    /\ IF ~hasCredentials(c)
       THEN /\ startNewSession(c)
            /\ UNCHANGED sent
       ELSE \E ok \in BOOLEAN :
              /\ sendNode(c, ok)
              /\ IF ok
                 THEN /\ driverPc' = [driverPc EXCEPT ![c] = "resume_wait"]
                      /\ UNCHANGED <<status, qrCode>>
                 ELSE startNewSession(c)
    /\ UNCHANGED <<mgrVars, ID, clientPc, state, ws, rcvPc, msgChan, errorChan,
                   serverData, processAttempts, readFailedAuth>>

\* resumeSession: a message arrives; handleResumeResponse.
ResumeResponse(c) ==
    /\ driverPc[c] = "resume_wait"
    /\ msgChan[c] > 0
    /\ msgChan' = [msgChan EXCEPT ![c] = @ - 1]
    /\ state' = [state EXCEPT ![c] = StateAuthenticated]
    /\ OnReady(c)
    /\ driverPc' = [driverPc EXCEPT ![c] = "ok"]
    /\ UNCHANGED <<mgrVars, ID, clientPc, ws, rcvPc, errorChan, serverData,
                   processAttempts, sent, readFailedAuth>>

\* resumeSession: the 30 s timer fires; Connect falls back to pairing.
ResumeTimeout(c) ==
    /\ driverPc[c] = "resume_wait"
    /\ startNewSession(c)
    /\ UNCHANGED <<mgrVars, ID, clientPc, state, ws, rcvPc, msgChan, errorChan,
                   serverData, processAttempts, sent, readFailedAuth>>

\* startNewSession: a message arrives; handleAuthMessage.
AuthMessage(c) ==
    /\ driverPc[c] = "qr_wait"
    /\ msgChan[c] > 0
    /\ msgChan' = [msgChan EXCEPT ![c] = @ - 1]
    /\ state' = [state EXCEPT ![c] = StateAuthenticated]
    /\ OnReady(c)
    /\ driverPc' = [driverPc EXCEPT ![c] = "ok"]
    /\ UNCHANGED <<mgrVars, ID, clientPc, ws, rcvPc, errorChan, serverData,
                   processAttempts, sent, readFailedAuth>>

\* startNewSession: the QR timer fires; Connect returns "QR code expired".
QRTimeout(c) ==
    /\ driverPc[c] = "qr_wait"
    /\ driverPc' = [driverPc EXCEPT ![c] = "err"]
    /\ UNCHANGED <<mgrVars, clientVars, state, ws, rcvPc, msgChan, errorChan,
                   serverData, processAttempts, sent, readFailedAuth>>

\* ------------------------------------------------ core.Connection.receiveLoop

\* ws.Read returns a message: it is queued in msgChan, or dropped when the
\* channel is full.
ReceiveMessage(c) ==
    /\ rcvPc[c] = "running"
    /\ ws[c] = "open"
    /\ msgChan[c] < MaxQueued
    /\ msgChan' = [msgChan EXCEPT ![c] = IF @ < MsgChanCap THEN @ + 1 ELSE @]
    /\ UNCHANGED <<mgrVars, clientVars, state, ws, driverPc, rcvPc, errorChan,
                   serverData, processAttempts, sent, readFailedAuth>>

\* The non-blocking send of the read error to errorChan.
pushError(c) ==
    errorChan' = [errorChan EXCEPT ![c] = IF @ < ErrorChanCap THEN @ + 1 ELSE @]

\* ws.Read fails (the server closed the transport, or the 60 s read timeout
\* expired): the error is offered to errorChan and the loop returns.
ReceiveError(c) ==
    /\ rcvPc[c] = "running"
    /\ pushError(c)
    /\ rcvPc' = [rcvPc EXCEPT ![c] = "stopped"]
    /\ readFailedAuth' = [readFailedAuth EXCEPT ![c] = (state[c] = StateAuthenticated)]
    /\ UNCHANGED <<mgrVars, clientVars, state, ws, driverPc, msgChan,
                   serverData, processAttempts, sent>>

\* After cancelReceive(): the loop sees ctx.Done() at its head, or the read in
\* flight returns the context's error, which goes to errorChan.
ReceiveCancelled(c) ==
    /\ rcvPc[c] = "cancelled"
    /\ \E inRead \in BOOLEAN :
         IF inRead THEN pushError(c) ELSE UNCHANGED errorChan
    /\ rcvPc' = [rcvPc EXCEPT ![c] = "stopped"]
    /\ UNCHANGED <<mgrVars, clientVars, state, ws, driverPc, msgChan,
                   serverData, processAttempts, sent, readFailedAuth>>

coreVars == <<mgrVars, clientVars, connVars>>
detailVars == <<wa, conn, noise, hs, server, wire, hist>>

\* ------------------------------------------------------------ specification

\* The session supervisor's specification leaves the second specification's
\* variables alone.
Next ==
    \/ LoadPersistedSessions /\ UNCHANGED <<detailVars, codec>>
    \/ ServerStart /\ UNCHANGED <<detailVars, codec>>
    \/ Shutdown /\ UNCHANGED <<detailVars, codec>>
    \/ WebhookTest /\ UNCHANGED <<detailVars, codec>>
    \/ \E id \in Ids : SessionCreate(id) /\ UNCHANGED <<detailVars, codec>>
    \/ \E id \in Ids : SessionDelete(id) /\ UNCHANGED <<detailVars, codec>>
    \/ \E c \in Clients : WAClientConnect(c) /\ UNCHANGED <<detailVars, codec>>
    \/ \E c \in Clients : ConnectFailed(c) /\ UNCHANGED <<detailVars, codec>>
    \/ \E c \in Clients : Dial(c) /\ UNCHANGED <<detailVars, codec>>
    \/ \E c \in Clients : SendClientHello(c) /\ UNCHANGED <<detailVars, codec>>
    \/ \E c \in Clients : RecvServerHello(c) /\ UNCHANGED <<detailVars, codec>>
    \/ \E c \in Clients : HandshakeTimeout(c) /\ UNCHANGED <<detailVars, codec>>
    \/ \E c \in Clients : SendClientFinish(c) /\ UNCHANGED <<detailVars, codec>>
    \/ \E c \in Clients : ResumeSession(c) /\ UNCHANGED <<detailVars, codec>>
    \/ \E c \in Clients : ResumeResponse(c) /\ UNCHANGED <<detailVars, codec>>
    \/ \E c \in Clients : ResumeTimeout(c) /\ UNCHANGED <<detailVars, codec>>
    \/ \E c \in Clients : AuthMessage(c) /\ UNCHANGED <<detailVars, codec>>
    \/ \E c \in Clients : QRTimeout(c) /\ UNCHANGED <<detailVars, codec>>
    \/ \E c \in Clients : ReceiveMessage(c) /\ UNCHANGED <<detailVars, codec>>
    \/ \E c \in Clients : ReceiveError(c) /\ UNCHANGED <<detailVars, codec>>
    \/ \E c \in Clients : ReceiveCancelled(c) /\ UNCHANGED <<detailVars, codec>>

Spec == Init /\ [][Next]_vars

\* The start of Connection.Connect for the session NoiseSessionID, against a
\* server that answers with one of the hellos and sends up to budget
\* transport messages one by one.
ConnectionInit(hellos, budget) ==
    /\ mainPc = "boot"
    /\ loadIdx = 0
    /\ \E b \in BOOLEAN : creds = [i \in Ids |-> i = NoiseSessionID /\ b]
    /\ sessions = [i \in Ids |-> NoClient]
    /\ ret = ErrNone
    /\ dispatched = {}
    /\ ID = [c \in Clients |-> NoId]
    /\ status = [c \in Clients |-> StatusInitializing]
    /\ qrCode = [c \in Clients |-> FALSE]
    /\ clientPc = [c \in Clients |-> "none"]
    /\ state = [c \in Clients |-> StateDisconnected]
    /\ ws = [c \in Clients |-> "nil"]
    /\ driverPc = [c \in Clients |-> "none"]
    /\ rcvPc = [c \in Clients |-> "none"]
    /\ msgChan = [c \in Clients |-> 0]
    /\ errorChan = [c \in Clients |-> 0]
    /\ serverData = [c \in Clients |-> 0]
    /\ processAttempts = [c \in Clients |-> 0]
    /\ sent = [c \in Clients |-> <<>>]
    /\ readFailedAuth = [c \in Clients |-> FALSE]
    /\ wa = [status |-> StatusConnecting, qrCode |-> FALSE]
    /\ conn = NewConnection
    /\ noise = NewNoiseHandler
    /\ hs = [serverData |-> <<>>, processAttempts |-> 0]
    /\ \E hello \in hellos : \E split \in SplitPoints(hello) :
         server = [hello |-> hello, split |-> split, part |-> 0, stray |-> 0,
                   sendCounter |-> CounterZero, transport |-> 0,
                   budget |-> budget, bursts |-> 0]
    /\ wire = <<>>
    /\ hist = [zeroKeys |-> {}, nonceReused |-> FALSE, staticRejected |-> FALSE,
               dropped |-> FALSE, qrExpired |-> FALSE, qrCalls |-> 0]
    /\ codec = [kind |-> "none"]

NoiseInit == ConnectionInit(Hellos, MaxTransport)

\* The queue specification: the server's ServerHello is the valid one in one
\* message, and it sends more transport messages than msgChan holds.
QueueInit ==
    /\ ConnectionInit({HelloValid}, MsgChanCap + MaxOverflow)
    /\ server.split = 0

\* The AEAD calls of one operation entered in the history: the keys under
\* which the nonce 0 was used, and whether it was used twice under one key.
RecordAead(h, calls) ==
    IF Len(calls) = 0 \/ calls[1].iv # CounterZero THEN h
    ELSE IF calls[1].key \in h.zeroKeys THEN [h EXCEPT !.nonceReused = TRUE]
    ELSE [h EXCEPT !.zeroKeys = @ \cup {calls[1].key}]

\* The messages the server's ServerHello travels in.
ServerParts ==
    IF Len(server.hello) = 0 THEN <<>>
    ELSE IF server.split = 0 THEN <<server.hello>>
    ELSE <<SubSeq(server.hello, 1, server.split),
           SubSeq(server.hello, server.split + 1, Len(server.hello))>>

ClientFinishWritten == Len(wire) >= 2

\* What ws.Read may return next, with the server's state afterwards.  Once the
\* ServerHello is out, the server's record no longer tells how it was split.
ServerOffers ==
    IF server.part < Len(ServerParts)
    THEN {[data |-> ServerParts[server.part + 1],
           server |-> IF server.part + 1 < Len(ServerParts)
                      THEN [server EXCEPT !.part = @ + 1]
                      ELSE [server EXCEPT !.part = 1, !.split = 0]]}
    ELSE IF server.hello = HelloLowOrder /\ server.stray < MaxStray
    THEN {[data |-> Bytes(n, 7), server |-> [server EXCEPT !.stray = @ + 1]] :
             n \in StrayLens}
    ELSE IF ClientFinishWritten /\ server.transport < server.budget
    THEN {[data |-> TransportCiphertext(server.sendCounter, altered),
           server |-> [server EXCEPT !.sendCounter = CounterInc(@),
                                     !.transport = @ + 1]] :
             altered \in IF server.transport < MaxAlterable THEN BOOLEAN ELSE {FALSE}}
    ELSE {}

\* An offer that makes room by dropping the oldest queued message.
offerMsgChanDropOldest(queue, m) ==
    IF Len(queue) < MsgChanCap THEN Append(queue, m) ELSE Append(Tail(queue), m)

\* The select of receiveLoop on msgChan: queued, or dropped when the channel
\* is full.
offerMsgChan(queue, m) == IF Len(queue) < MsgChanCap THEN Append(queue, m) ELSE queue

\* Connection.Connect up to performHandshake: state Connecting, the dial,
\* state Connected, the receive loop started.
ConnectDial ==
    /\ conn.pc = "connect"
    /\ \E ok \in BOOLEAN :
         conn' = IF ok
                 THEN [conn EXCEPT !.state = StateConnected, !.ws = "open",
                                   !.rcv = "running", !.pc = "hello"]
                 ELSE [conn EXCEPT !.state = StateConnecting, !.pc = "err"]
    /\ UNCHANGED <<coreVars, codec, wa, noise, hs, server, wire, hist>>

\* Connect after performHandshake returned an error: cancelReceive, ws.Close.
handshakeFailed(cn) ==
    [cn EXCEPT !.rcv = IF @ = "running" THEN "cancelled" ELSE @,
               !.ws = "closed", !.pc = "err"]

HandshakeClientHello ==
    /\ conn.pc = "hello"
    /\ \E ok \in BOOLEAN :
         IF ok
         THEN /\ wire' = Append(wire, [data |-> GenerateClientHello(noise), sealed |-> FALSE,
                                    finished |-> FALSE])
              /\ conn' = [conn EXCEPT !.pc = "wait_sh"]
         ELSE /\ conn' = handshakeFailed(conn)
              /\ UNCHANGED wire
    /\ UNCHANGED <<coreVars, codec, wa, noise, hs, server, hist>>

\* performHandshake: one chunk from msgChan is appended to serverData; with
\* 32 bytes or more ProcessServerHello is tried.
HandshakeServerHello ==
    /\ conn.pc = "wait_sh"
    /\ Len(conn.msgChan) > 0
    /\ \E data \in {hs.serverData \o Head(conn.msgChan).data} :
       \E processed \in {ProcessServerHello(noise, data)} :
       LET attempts == hs.processAttempts + 1
           queue == [conn EXCEPT !.msgChan = Tail(@)]
       IN IF Len(data) < MinServerHello
          THEN /\ hs' = [hs EXCEPT !.serverData = data]
               /\ conn' = queue
               /\ UNCHANGED <<noise, hist>>
          ELSE /\ noise' = processed.n
               /\ hist' = [RecordAead(hist, processed.aead)
                             EXCEPT !.staticRejected = @ \/ processed.staticRejected]
               /\ hs' = [serverData |-> data, processAttempts |-> attempts]
               /\ conn' = IF ~processed.err THEN [queue EXCEPT !.pc = "finish"]
                          ELSE IF Len(data) >= minBytesForError
                                  /\ attempts >= maxProcessAttempts
                          THEN handshakeFailed(queue)
                          ELSE queue
    /\ UNCHANGED <<coreVars, codec, wa, server, wire>>

HandshakeExpired ==
    /\ conn.pc = "wait_sh"
    /\ conn' = handshakeFailed(conn)
    /\ UNCHANGED <<coreVars, codec, wa, noise, hs, server, wire, hist>>

\* startNewSession up to its select, through the QR callback of WAClient.
newSession(cn) == [cn EXCEPT !.pc = "qr_wait"]
onQR(w) == [status |-> StatusQRReady, qrCode |-> TRUE]
\* The history counts the invocations of the QR callback.
qrCalled(h) == [h EXCEPT !.qrCalls = @ + 1]
onReady(w) == [w EXCEPT !.status = StatusReady]

\* performHandshake from handshakeComplete: GenerateClientFinish and its
\* write; then Connect goes on to resumeSession or startNewSession.
HandshakeClientFinish ==
    /\ conn.pc = "finish"
    /\ \E finish \in {GenerateClientFinish(noise)} :
          /\ noise' = finish.n
          /\ hs' = [serverData |-> <<>>, processAttempts |-> 0]
          /\ \E ok \in BOOLEAN :
               IF ok
               THEN /\ wire' = Append(wire, [data |-> finish.out, sealed |-> FALSE,
                                         finished |-> FALSE])
                    /\ IF creds[NoiseSessionID]
                       THEN /\ conn' = [conn EXCEPT !.pc = "resume"]
                            /\ hist' = RecordAead(hist, finish.aead)
                            /\ UNCHANGED wa
                       ELSE /\ conn' = newSession(conn)
                            /\ wa' = onQR(wa)
                            /\ hist' = qrCalled(RecordAead(hist, finish.aead))
               ELSE /\ conn' = handshakeFailed(conn)
                    /\ hist' = RecordAead(hist, finish.aead)
                    /\ UNCHANGED <<wire, wa>>
    /\ UNCHANGED <<coreVars, codec, server>>

\* A resumeSession whose failure Connect returns.
ResumeExpiredReturnsError ==
    /\ conn.pc = "resume_wait"
    /\ conn' = [conn EXCEPT !.pc = "err"]
    /\ UNCHANGED <<coreVars, codec, wa, noise, hs, server, wire, hist>>

\* resumeSession up to its select: loadCredentials, which fails on a file
\* that cannot be read or parsed, then sendNode of the resume node.  On
\* either failure Connect goes on to startNewSession.
ResumeSend ==
    /\ conn.pc = "resume"
    /\ \E loaded \in BOOLEAN :
         IF ~loaded
         THEN /\ conn' = newSession(conn)
              /\ wa' = onQR(wa)
              /\ hist' = qrCalled(hist)
              /\ UNCHANGED <<noise, wire>>
         ELSE \E encrypted \in {Encrypt(noise, ResumeNode)} :
                /\ noise' = encrypted.n
                /\ \E ok \in BOOLEAN :
                     IF ok
                     THEN /\ wire' = Append(wire, [data |-> encrypted.out,
                                                   sealed |-> encrypted.sealed,
                                                   finished |-> noise.isFinished])
                          /\ conn' = [conn EXCEPT !.pc = "resume_wait"]
                          /\ hist' = RecordAead(hist, encrypted.aead)
                          /\ UNCHANGED wa
                     ELSE /\ conn' = newSession(conn)
                          /\ wa' = onQR(wa)
                          /\ hist' = qrCalled(RecordAead(hist, encrypted.aead))
                          /\ UNCHANGED wire
    /\ UNCHANGED <<coreVars, codec, hs, server>>

\* A resumeSession whose select hands the response to startNewSession.
HandleResumeResponseAsFailure ==
    /\ conn.pc = "resume_wait"
    /\ Len(conn.msgChan) > 0
    /\ conn' = newSession([conn EXCEPT !.msgChan = Tail(@)])
    /\ wa' = onQR(wa)
    /\ hist' = qrCalled(hist)
    /\ UNCHANGED <<coreVars, codec, noise, hs, server, wire>>

\* resumeSession's select when a message is in msgChan: handleResumeResponse.
HandleResumeResponse ==
    /\ conn.pc = "resume_wait"
    /\ Len(conn.msgChan) > 0
    /\ conn' = [conn EXCEPT !.msgChan = Tail(@), !.state = StateAuthenticated, !.pc = "ok"]
    /\ wa' = onReady(wa)
    /\ UNCHANGED <<coreVars, codec, noise, hs, server, wire, hist>>

\* resumeSession: the 30 s timer fires; Connect goes on to startNewSession.
ResumeExpired ==
    /\ conn.pc = "resume_wait"
    /\ conn' = newSession(conn)
    /\ wa' = onQR(wa)
    /\ hist' = qrCalled(hist)
    /\ UNCHANGED <<coreVars, codec, noise, hs, server, wire>>

HandleAuthMessage ==
    /\ conn.pc = "qr_wait"
    /\ Len(conn.msgChan) > 0
    /\ conn' = [conn EXCEPT !.msgChan = Tail(@), !.state = StateAuthenticated, !.pc = "ok"]
    /\ wa' = onReady(wa)
    /\ UNCHANGED <<coreVars, codec, noise, hs, server, wire, hist>>

QRExpired ==
    /\ conn.pc = "qr_wait"
    /\ conn' = [conn EXCEPT !.pc = "err"]
    /\ hist' = [hist EXCEPT !.qrExpired = TRUE]
    /\ UNCHANGED <<coreVars, codec, wa, noise, hs, server, wire>>

\* The goroutine of WAClient.Connect after Connection.Connect returned an
\* error.
ConnectReturnedError ==
    /\ conn.pc = "err"
    /\ conn' = [conn EXCEPT !.pc = "failed"]
    /\ wa' = [wa EXCEPT !.status = StatusDisconnected]
    /\ UNCHANGED <<coreVars, codec, noise, hs, server, wire, hist>>

\* One iteration of receiveLoop with a successful read: Decrypt when the
\* handshake is complete, then the offer to msgChan.
ReceiveLoopRead ==
    /\ conn.rcv = "running"
    /\ conn.ws = "open"
    /\ \E offer \in ServerOffers :
         \E decrypted \in {IF IsHandshakeComplete(noise) THEN Decrypt(noise, offer.data)
                            ELSE [n |-> noise, out |-> offer.data, opened |-> FALSE,
                                  aead |-> <<>>]} :
            /\ server' = offer.server
            /\ noise' = decrypted.n
            /\ conn' = [conn EXCEPT !.msgChan =
                          offerMsgChan(@, [data |-> decrypted.out,
                                           opened |-> decrypted.opened,
                                           finished |-> noise.isFinished])]
            /\ hist' = [RecordAead(hist, decrypted.aead)
                          EXCEPT !.dropped = @ \/ Len(conn.msgChan) >= MsgChanCap]
    /\ UNCHANGED <<coreVars, codec, wa, hs, wire>>

\* BurstBlocks * 2^16 iterations of receiveLoop in a row while msgChan is
\* full: every message is read, goes through Decrypt and is dropped.
ReceiveLoopBurst ==
    /\ conn.rcv = "running"
    /\ conn.ws = "open"
    /\ IsHandshakeComplete(noise)
    /\ ClientFinishWritten
    /\ Len(conn.msgChan) = MsgChanCap
    /\ server.bursts < MaxBursts
    /\ LET passesZero ==
              \/ noise.readCounter = CounterZero
              \/ noise.readCounter[1] + BurstBlocks > HalfWord
              \/ noise.readCounter[1] + BurstBlocks = HalfWord /\ noise.readCounter[2] > 0
       IN hist' = [(IF passesZero
                    THEN RecordAead(hist, <<[key |-> noise.decKey, iv |-> CounterZero]>>)
                    ELSE hist) EXCEPT !.dropped = TRUE]
    /\ noise' = [noise EXCEPT !.readCounter = CounterAddBlocks(@, BurstBlocks)]
    /\ server' = [server EXCEPT !.sendCounter = CounterAddBlocks(@, BurstBlocks),
                                !.bursts = @ + 1]
    /\ UNCHANGED <<coreVars, codec, wa, conn, hs, wire>>

\* The non-blocking send of a read error to errorChan.
offerErrorChan(n) == IF n < ErrorChanCap THEN n + 1 ELSE n

\* ws.Read fails (the server closed, or the read timed out): the error is
\* offered to errorChan and the loop returns.
ReceiveLoopReadError ==
    /\ conn.rcv = "running"
    /\ conn' = [conn EXCEPT !.errorChan = offerErrorChan(@), !.rcv = "stopped"]
    /\ UNCHANGED <<coreVars, codec, wa, noise, hs, server, wire, hist>>

\* After cancelReceive: the loop sees ctx.Done(), or the read in flight fails.
ReceiveLoopCancelled ==
    /\ conn.rcv = "cancelled"
    /\ \E inRead \in BOOLEAN :
         conn' = [conn EXCEPT !.errorChan = IF inRead THEN offerErrorChan(@) ELSE @,
                              !.rcv = "stopped"]
    /\ UNCHANGED <<coreVars, codec, wa, noise, hs, server, wire, hist>>

NoiseNext ==
    \/ ConnectDial
    \/ HandshakeClientHello
    \/ HandshakeServerHello
    \/ HandshakeExpired
    \/ HandshakeClientFinish
    \/ ResumeSend
    \/ HandleResumeResponse
    \/ ResumeExpired
    \/ HandleAuthMessage
    \/ QRExpired
    \/ ConnectReturnedError
    \/ ReceiveLoopRead
    \/ ReceiveLoopReadError
    \/ ReceiveLoopCancelled

NoiseSpec == NoiseInit /\ [][NoiseNext]_vars

QueueNext ==
    \/ NoiseNext
    \/ ReceiveLoopBurst

QueueSpec == QueueInit /\ [][QueueNext]_vars

\* ------------------------------------------ the codec functions, call by call
\* The uint64 values encodeVarint is called with: encodings of 1 to 10 bytes.
VarintInputs ==
    {<<hi, mid, lo>> : hi \in {0, 1, 127, 128, 255},
                       mid \in {0, 1, 127, 128, 268435455},
                       lo \in {0, 1, 127, 128, 16383, 16384, 268435455}}

\* The strings encodeString is called with: every dictionary entry, and
\* strings that are not in the dictionary ("ab", and runs of "a").
StringInputs ==
    {tagDictionary[i] : i \in 1..Len(tagDictionary)}
    \cup {<<97, 98>>} \cup {Bytes(n, 97) : n \in {1, 47, 48, 127, 128, 200}}

\* The nodes EncodeBinaryNode is called with.  The i-th attribute is
\* "k<i>" -> "v<i>"; the range loop may visit a map's attributes in any order.
AttrPair(i) == <<<<107, 48 + i>>, <<118, 48 + i>>>>
AttrInputs ==
    {a \in UNION {[1..n -> 1..MaxAttrs] : n \in 0..MaxAttrs} :
        \A i, j \in DOMAIN a : i # j => a[i] # a[j]}
LeafInputs ==
    {[Tag |-> <<97, 98>>, Attrs |-> <<AttrPair(1)>>, Content |-> [kind |-> "nil"]],
     [Tag |-> tagDictionary[157], Attrs |-> <<>>,
      Content |-> [kind |-> "bytes", val |-> <<200>>]]}
ContentInputs ==
    {[kind |-> "nil"], [kind |-> "string", val |-> <<>>],
     [kind |-> "string", val |-> <<97, 98>>]}
    \cup {[kind |-> "bytes", val |-> b] : b \in {<<>>, <<5>>, <<200, 1>>}}
    \cup {[kind |-> "list", val |-> l] :
             l \in UNION {[1..n -> LeafInputs] : n \in 0..MaxChildren}}
NodeInputs ==
    {[Tag |-> t, Attrs |-> [i \in DOMAIN a |-> AttrPair(a[i])], Content |-> c] :
        t \in {tagDictionary[157], <<97, 98>>}, a \in AttrInputs, c \in ContentInputs}

\* The keys GenerateClientFinish hands to EncodeClientFinish.
ClientFinishInputs ==
    {[static |-> st, payload |-> pl] :
        st \in {Bytes(48, CipherByte), Bytes(48, 1)},
        pl \in {<<>>, Bytes(16, CipherByte), Bytes(20, 9)}}

\* The ServerHello messages of a server: each field present or not, and an
\* unknown field 9 of one of the wire types before or after them.
UnknownFields ==
    {<<>>, <<72, 5>>, <<73, 1, 2, 3, 4, 5, 6, 7, 8>>, <<77, 1, 2, 3, 4>>, <<74, 2, 1, 2>>}
ServerHelloInputs ==
    {[ephemeral |-> e, static |-> st, payload |-> pl, unknown |-> u, front |-> f] :
        e \in {<<>>, ServerEphemeralKey}, st \in {<<>>, ServerStaticCiphertext},
        pl \in {<<>>, Bytes(16, PlainMarker)}, u \in UnknownFields, f \in BOOLEAN}
\* The ServerHello h as the server encodes it: bare, or wrapped in a
\* HandshakeMessage; with or without its unknown field.
ServerHelloMessage(h, wrapped, withUnknown) ==
    LET fields == pbEncodeBytes(fieldEphemeral, h.ephemeral)
                  \o pbEncodeBytes(fieldStatic, h.static)
                  \o pbEncodeBytes(fieldPayload, h.payload)
        bare == IF ~withUnknown THEN fields
                ELSE IF h.front THEN h.unknown \o fields ELSE fields \o h.unknown
    IN IF wrapped THEN pbEncodeBytes(fieldServerHello, bare) ELSE bare

CodecCall(kind, in) == [kind |-> kind, in |-> in, done |-> FALSE, out |-> <<>>]
\* The call of DecodeBinaryNode on the encoding of node t less cut bytes.
NodeCall(t, cut) ==
    [kind |-> IF cut = 0 THEN "node" ELSE "cutnode", in |-> t, cut |-> cut,
     done |-> FALSE, out |-> <<>>]

\* The byte strings decodeVarint is called with: k bytes with the
\* continuation bit, then nothing or one byte without it.
VarintByteInputs ==
    {Bytes(k, lead) \o last :
        k \in 0..11, lead \in {128, 255}, last \in {<<>>, <<0>>, <<1>>, <<2>>, <<127>>}}

\* Encodings cut short: a node's encoding without its last bytes, and a
\* ServerHello message (with or without its unknown field, wrapped or bare)
\* without its last bytes.
TruncatedNodeInputs ==
    {[node |-> t, cut |-> k] : t \in NodeInputs, k \in 1..12}
TruncatedHelloInputs ==
    {[hello |-> h, wrapped |-> w, cut |-> k] :
        h \in {g \in ServerHelloInputs : g.ephemeral # <<>>}, w \in BOOLEAN,
        k \in {1, 2, 3, 20, 33}}

\* The payloads EncodeFrame is called with before the handshake is finished,
\* one with a length of three significant bytes, and the lengths of the
\* chunks their frames arrive in.
FramePayloads == {<<>>, <<1>>, <<2, 3>>, Bytes(300, 4)}
FrameInputs ==
    UNION {[1..k -> FramePayloads] : k \in 0..MaxFrames}
    \cup {<<Bytes(65536, 5), <<6>>>>}
FrameChunkLens == {1, 2, 3, 4, 5, 302, 303, 304, 65538, 65539, 65540}
\* The frames of the payloads, one after the other.
RECURSIVE FrameStream(_)
FrameStream(payloads) ==
    IF Len(payloads) = 0 THEN <<>>
    ELSE EncodeFrame(NewNoiseHandler, Head(payloads)).out \o FrameStream(Tail(payloads))
\* The calls of DecodeFrame on the stream of the payloads: the bytes not yet
\* handed over, the frames returned so far, the number of calls.
FrameCall(payloads) ==
    [kind |-> "frames", in |-> payloads, done |-> FALSE, out |-> <<>>,
     stream |-> FrameStream(payloads), calls |-> 0]

CodecInit ==
    /\ mainPc = "boot"
    /\ loadIdx = 0
    /\ creds = [i \in Ids |-> FALSE]
    /\ sessions = [i \in Ids |-> NoClient]
    /\ ret = ErrNone
    /\ dispatched = {}
    /\ ID = [c \in Clients |-> NoId]
    /\ status = [c \in Clients |-> StatusInitializing]
    /\ qrCode = [c \in Clients |-> FALSE]
    /\ clientPc = [c \in Clients |-> "none"]
    /\ state = [c \in Clients |-> StateDisconnected]
    /\ ws = [c \in Clients |-> "nil"]
    /\ driverPc = [c \in Clients |-> "none"]
    /\ rcvPc = [c \in Clients |-> "none"]
    /\ msgChan = [c \in Clients |-> 0]
    /\ errorChan = [c \in Clients |-> 0]
    /\ serverData = [c \in Clients |-> 0]
    /\ processAttempts = [c \in Clients |-> 0]
    /\ sent = [c \in Clients |-> <<>>]
    /\ readFailedAuth = [c \in Clients |-> FALSE]
    /\ wa = [status |-> StatusInitializing, qrCode |-> FALSE]
    /\ conn = NewConnection
    /\ noise = NewNoiseHandler
    /\ hs = [serverData |-> <<>>, processAttempts |-> 0]
    /\ server = [hello |-> HelloNone, split |-> 0, part |-> 0, stray |-> 0,
                 sendCounter |-> CounterZero, transport |-> 0, budget |-> 0,
                 bursts |-> 0]
    /\ wire = <<>>
    /\ hist = [zeroKeys |-> {}, nonceReused |-> FALSE, staticRejected |-> FALSE,
               dropped |-> FALSE, qrExpired |-> FALSE, qrCalls |-> 0]
    /\ codec \in {CodecCall("varint", v) : v \in VarintInputs}
                 \cup {CodecCall("string", str) : str \in StringInputs}
                 \cup {NodeCall(t, 0) : t \in NodeInputs}
                 \cup {CodecCall("finish", f) : f \in ClientFinishInputs}
                 \cup {CodecCall("hello", h) : h \in ServerHelloInputs}
                 \cup {FrameCall(payloads) : payloads \in FrameInputs}
                 \cup {CodecCall("varbytes", b) : b \in VarintByteInputs}
                 \cup {NodeCall(u.node, u.cut) :
                          u \in {t \in TruncatedNodeInputs :
                                    t.cut < Len(EncodeBinaryNode(t.node))}}
                 \cup {CodecCall("cuthello", h) : h \in TruncatedHelloInputs}

\* decodeVarint(encodeVarint(n)).
VarintRoundTrip ==
    /\ codec.kind = "varint" /\ ~codec.done
    /\ codec' = [codec EXCEPT !.done = TRUE,
                              !.out = decodeVarint(encodeVarint(codec.in))]
    /\ UNCHANGED <<coreVars, detailVars>>

\* decodeString on the bytes encodeString wrote.
StringRoundTrip ==
    /\ codec.kind = "string" /\ ~codec.done
    /\ codec' = [codec EXCEPT !.done = TRUE,
                              !.out = decodeString(encodeString(codec.in), 0)]
    /\ UNCHANGED <<coreVars, detailVars>>

\* DecodeBinaryNode on EncodeBinaryNode(t) without its last cut bytes: the
\* round trip when nothing is cut, else the decoding of a cut encoding.
NodeRoundTrip ==
    /\ codec.kind \in {"node", "cutnode"} /\ ~codec.done
    /\ \E data \in {EncodeBinaryNode(codec.in)} :
         codec' = [codec EXCEPT
                      !.done = TRUE,
                      !.out = DecodeBinaryNode(Slice(data, 0, Len(data) - codec.cut))]
    /\ UNCHANGED <<coreVars, detailVars>>

\* EncodeClientFinish(static, payload).
ClientFinishEncode ==
    /\ codec.kind = "finish" /\ ~codec.done
    /\ codec' = [codec EXCEPT !.done = TRUE,
                              !.out = EncodeClientFinish(codec.in.static, codec.in.payload)]
    /\ UNCHANGED <<coreVars, detailVars>>

\* DecodeServerHello on the wrapped and on the bare message of a ServerHello,
\* and on the wrapped message without the unknown field.
ServerHelloDecode ==
    /\ codec.kind = "hello" /\ ~codec.done
    /\ codec' = [codec EXCEPT
          !.done = TRUE,
          !.out = [wrapped |-> DecodeServerHello(ServerHelloMessage(codec.in, TRUE, TRUE)),
                   bare |-> DecodeServerHello(ServerHelloMessage(codec.in, FALSE, TRUE)),
                   known |-> DecodeServerHello(ServerHelloMessage(codec.in, TRUE, FALSE))]]
    /\ UNCHANGED <<coreVars, detailVars>>

\* decodeVarint on a byte string.
VarintDecode ==
    /\ codec.kind = "varbytes" /\ ~codec.done
    /\ codec' = [codec EXCEPT !.done = TRUE, !.out = decodeVarint(codec.in)]
    /\ UNCHANGED <<coreVars, detailVars>>

\* The number of the last field of the bare ServerHello message of h: the
\* unknown field 9 when it comes last, else the payload.
LastField(h) == IF ~h.front /\ h.unknown # <<>> THEN 9 ELSE fieldPayload

\* findField for the last field of the message, and DecodeServerHello, whose
\* error is always nil, on a ServerHello message without its last cut bytes.
TruncatedHelloDecode ==
    /\ codec.kind = "cuthello" /\ ~codec.done
    /\ \E data \in {ServerHelloMessage(codec.in.hello, codec.in.wrapped, TRUE)} :
         \E cutData \in {Slice(data, 0, Len(data) - codec.in.cut)} :
            codec' = [codec EXCEPT
                         !.done = TRUE,
                         !.out = [field |-> findField(cutData,
                                                      IF codec.in.wrapped
                                                      THEN fieldServerHello
                                                      ELSE LastField(codec.in.hello)),
                                  hello |-> DecodeServerHello(cutData),
                                  helloErr |-> ErrNone]]
    /\ UNCHANGED <<coreVars, detailVars>>

\* One call of DecodeFrame with the next bytes of the stream.
FrameFeed ==
    /\ codec.kind = "frames" /\ ~codec.done
    /\ codec.calls < MaxCalls
    /\ \E k \in {l \in FrameChunkLens : l < Len(codec.stream)} \cup {Len(codec.stream)} :
         \E decoded \in {DecodeFrame(noise, Slice(codec.stream, 0, k))} :
            /\ noise' = decoded.n
            /\ codec' = [codec EXCEPT !.stream = Slice(@, k, Len(@)),
                                      !.out = @ \o decoded.frames,
                                      !.calls = @ + 1,
                                      !.done = (k = Len(codec.stream))]
    /\ UNCHANGED <<coreVars, wa, conn, hs, server, wire, hist>>

CodecNext ==
    \/ TruncatedHelloDecode
    \/ FrameFeed
    \/ VarintDecode
    \/ VarintRoundTrip
    \/ StringRoundTrip
    \/ NodeRoundTrip
    \/ ClientFinishEncode
    \/ ServerHelloDecode

CodecSpec == CodecInit /\ [][CodecNext]_vars


\* ------------------------------------------------------------------ claims

Registered(c) == Allocated(c) /\ sessions[ID[c]] = c
\* The client was registered and DeleteSession has removed it.
Deleted(c) == Allocated(c) /\ sessions[ID[c]] # c
DriverRunning(c) ==
    driverPc[c] \in {"dial", "hello", "wait_sh", "finish", "resume", "resume_wait", "qr_wait"}
ReceiveRunning(c) == rcvPc[c] \in {"running", "cancelled"}
\* The Connection has a running driver or receive task.
Live(c) == DriverRunning(c) \/ ReceiveRunning(c)

\* C1: after every step the client registered under an identifier carries
\* that identifier (so no client is registered under two identifiers), and no
\* step replaces a registered client by another one: an entry changes only
\* from absent to a client or from a client to absent.
C1_UniqueRegistration ==
    [][/\ \A i \in Ids : sessions'[i] # NoClient => ID'[sessions'[i]] = i
       /\ \A i \in Ids : (sessions[i] # NoClient /\ sessions'[i] # NoClient)
                            => sessions'[i] = sessions[i]]_vars

\* C1 witness: the identifier s1 was created, deleted and created again, and
\* a further create for it was refused: its second client is the registered one.
C1_Witness ==
    /\ sessions["s1"] = 2
    /\ ID[1] = "s1"
    /\ ret = ErrSessionExists

\* C2: a SessionManager.CreateSession for a registered identifier returns
\* ErrSessionExists and changes nothing else: the map, the registered client
\* (object, status, QR code), its connect goroutine, its Connection's driver
\* and receive loop, and no new client is allocated or connect started.
C2_DuplicateCreateFails ==
    [][\A i \in Ids : (sessions[i] # NoClient /\ SessionCreate(i))
          => /\ ret' = ErrSessionExists
             /\ sessions' = sessions
             /\ ID' = ID /\ status' = status /\ qrCode' = qrCode
             /\ clientPc' = clientPc /\ driverPc' = driverPc /\ rcvPc' = rcvPc
             /\ state' = state /\ ws' = ws /\ msgChan' = msgChan /\ sent' = sent]_vars

\* C2 witness: a create was refused while the registered client's connection
\* attempt is in its handshake.
C2_Witness ==
    /\ ret = ErrSessionExists
    /\ \E c \in Clients : Registered(c) /\ driverPc[c] = "wait_sh"
                          /\ status[c] = StatusConnecting

\* C3: DeleteSession for an identifier that is not registered returns
\* ErrSessionNotFound and changes nothing else; for a registered identifier
\* it returns nil, GetSession reports the identifier absent afterwards and
\* every other identifier keeps its entry.
C3_DeleteSession ==
    [][\A i \in Ids : SessionDelete(i) =>
          IF sessions[i] = NoClient
          THEN /\ ret' = ErrSessionNotFound
               /\ UNCHANGED <<sessions, creds, clientVars, connVars>>
          ELSE /\ ret' = ErrNone
               /\ ~(GetSession(i).exists)'
               /\ \A j \in Ids \ {i} : sessions'[j] = sessions[j]]_vars

\* C3 witness: a client has been deleted, another identifier is still
\* registered, and a delete of an unregistered identifier was refused.
C3_Witness ==
    /\ ret = ErrSessionNotFound
    /\ \E c \in Clients : Deleted(c)
    /\ \E c \in Clients : Registered(c)

\* C4: a client removed by DeleteSession never has status QR_READY or READY:
\* DeleteSession left it DISCONNECTED, so either status was set after the delete
\* returned, by the QR or the ready callback of a connect that went on.
C4_DeleteCancelsConnect ==
    \A c \in Clients : Deleted(c) => status[c] \notin {StatusQRReady, StatusReady}

\* C5: no two clients with the same session identifier have a live
\* Connection (a running driver or receive task) at the same time.
C5_OneLiveConnectionPerId ==
    \A c, d \in Clients :
        (c # d /\ Allocated(c) /\ ID[c] = ID[d]) => ~(Live(c) /\ Live(d))

\* C6: the step in which main calls DisconnectAll leaves every registered
\* session that has a Connection with its WebSocket closed and its Connection
\* in state Disconnected.
C6_DisconnectAllCloses ==
    [][Shutdown =>
          \A c \in Clients : (Registered(c) /\ clientPc[c] = "returned") =>
              (ws'[c] # "open" /\ state'[c] = StateDisconnected)]_vars

\* C7: whenever Connection.Connect has returned an error, the Connection's
\* state is Disconnected.
C7_ErrorLeavesDisconnected ==
    \A c \in Clients : driverPc[c] \in {"err", "failed"} => state[c] = StateDisconnected

\* C8: when the receive loop's read has failed while the Connection was
\* Authenticated, the loop has stopped, the Connection is Disconnected, the
\* session status is DISCONNECTED and session.disconnected was dispatched.
\* (After such a read failure no step of the Connection is left: the driver has
\* returned and the receive loop has stopped, so what is to happen eventually
\* has to be the case already.)
C8_ReadFailureDisconnects ==
    \A c \in Clients : readFailedAuth[c] =>
        /\ rcvPc[c] = "stopped"
        /\ state[c] = StateDisconnected
        /\ status[c] = StatusDisconnected
        /\ EventSessionDisconnected \in dispatched

\* C9: when the QR callback has returned (the driver waits for the scan),
\* session.qr_ready has been handed to the dispatcher; when the ready callback
\* has returned (Connect returned nil), session.connected has; when a failed
\* connect has set the status DISCONNECTED, session.disconnected has.
C9_TransitionsDispatched ==
    \A c \in Clients :
        /\ driverPc[c] = "qr_wait" => EventSessionQRReady \in dispatched
        /\ driverPc[c] = "ok" => EventSessionConnected \in dispatched
        /\ driverPc[c] = "failed" => EventSessionDisconnected \in dispatched

\* C10: every step that writes an encrypted node to the WebSocket (sendNode)
\* is taken in state Authenticated.
C10_SendNodeOnlyAuthenticated ==
    [][\A c \in Clients :
          (Len(sent'[c]) > Len(sent[c]) /\ sent'[c][Len(sent'[c])] = "node")
             => state[c] = StateAuthenticated]_vars

\* C11: every message the receive loop queued for the driver after the
\* handshake finished is the output of a successful decryption, and every
\* payload built after the handshake finished and written to the WebSocket
\* is a sealed text.
C11_TransportThroughAead ==
    /\ \A i \in 1..Len(conn.msgChan) :
          conn.msgChan[i].finished => conn.msgChan[i].opened
    /\ \A i \in 1..Len(wire) : wire[i].finished => wire[i].sealed

\* C12: under no key is the nonce 0 used by two AEAD calls.
C12_NoNonceReuse == ~hist.nonceReused

\* C13: while the transport keys are installed, no step takes a nonce
\* counter back: an exhausted counter would make the call fail and leave the
\* counter where it is.
C13_CounterNeverWraps ==
    [][(noise.isFinished /\ noise'.isFinished)
          => /\ ~CounterLess(noise'.readCounter, noise.readCounter)
             /\ ~CounterLess(noise'.writeCounter, noise.writeCounter)]_vars

\* C14: before and after every step isFinished is true exactly when the
\* transcript hash is empty; once isFinished is true it stays true and the
\* hash stays as it is.
C14_HashOrTransportKeys ==
    [][/\ noise.isFinished <=> noise.hash = <<>>
       /\ noise'.isFinished <=> noise'.hash = <<>>
       /\ noise.isFinished => (noise'.isFinished /\ noise'.hash = noise.hash)]_vars

\* C14 witness: the handshake is finished and both an encrypt and a decrypt
\* were made under the transport keys.
C14_Witness ==
    /\ noise.isFinished
    /\ noise.writeCounter # CounterZero
    /\ noise.readCounter # CounterZero

\* C15: when the server's sealed static key was rejected by the AEAD,
\* ProcessServerHello did not return nil, the ClientFinish is not written and
\* the transport keys are not installed.
C15_RejectedStaticAborts ==
    hist.staticRejected =>
        /\ conn.pc \in {"wait_sh", "err", "failed"}
        /\ ~ClientFinishWritten
        /\ ~noise.isFinished

\* C16: performHandshake tries ProcessServerHello at most maxProcessAttempts
\* times.
C16_AtMostFiveAttempts == hs.processAttempts <= maxProcessAttempts

\* A ServerHello message that decodes: the HandshakeMessage holds a
\* ServerHello with a 32-byte ephemeral key.
DecodableServerHello(data) ==
    /\ findField(data, fieldServerHello).err = ErrNone
    /\ Len(findField(findField(data, fieldServerHello).bytes, fieldEphemeral).bytes) = 32

\* C17: performHandshake has returned nil (the ClientFinish is written) only
\* when the server sent a ServerHello that decodes, and a Connect that
\* returned an error has made the session status DISCONNECTED.
C17_HandshakeErrorWithoutServerHello ==
    /\ ClientFinishWritten => DecodableServerHello(server.hello)
    /\ conn.pc = "failed" => wa.status = StatusDisconnected

\* C18: when ProcessServerHello succeeds on the bytes of the valid
\* ServerHello, the ServerHello it parsed (ephemeral key and sealed static
\* key) is the one it parses from the whole message, however the server
\* split the message.
C18_SplitServerHelloSameParse ==
    [][(conn.pc = "wait_sh" /\ conn'.pc = "finish" /\ server.hello = HelloValid)
          => parseServerHello(hs'.serverData) = parseServerHello(HelloValid)]_vars

\* A message framed by a 3-byte big-endian length: the length counts exactly
\* the bytes that follow it.
LengthFramed(data) ==
    /\ Len(data) >= 3
    /\ data[1] * 65536 + data[2] * 256 + data[3] = Len(data) - 3

\* C19: the first message written is the header WA 06 03 followed by a
\* length-framed payload, and every later message is a length-framed payload.
C19_EveryWriteFramed ==
    \A i \in 1..Len(wire) :
        IF i = 1
        THEN /\ Len(wire[i].data) >= 4
             /\ Slice(wire[i].data, 0, 4) = NoiseHeader
             /\ LengthFramed(Slice(wire[i].data, 4, Len(wire[i].data)))
        ELSE LengthFramed(wire[i].data)

\* C20: msgChan never holds more than 100 messages, and a step in which a
\* message of the server arrives while msgChan holds 100 leaves the queued
\* messages as they are and the receive loop running.
C20_BoundedQueueDropsNewest ==
    [][/\ Len(conn'.msgChan) <= MsgChanCap
       /\ (Len(conn.msgChan) = MsgChanCap /\ server' # server)
             => (conn'.msgChan = conn.msgChan /\ conn'.rcv = "running")]_vars

\* C20 witness: a message was dropped, msgChan is full and the receive loop
\* is running.
C20_Witness ==
    /\ hist.dropped
    /\ Len(conn.msgChan) = MsgChanCap
    /\ conn.rcv = "running"

\* C21: for every uint64 n the codec was called with, decodeVarint of
\* encodeVarint(n) is n with the number of bytes of the encoding, and 0 is
\* encoded as the single byte 0.
C21_VarintRoundTrip ==
    (codec.kind = "varint" /\ codec.done) =>
        /\ codec.out = [value |-> codec.in, n |-> Len(encodeVarint(codec.in))]
        /\ codec.in = U64(0) => encodeVarint(codec.in) = <<0>>

\* C21 witness: a value of 2^63 or more, encoded in 10 bytes, was decoded
\* back.
C21_Witness ==
    /\ codec.kind = "varint" /\ codec.done
    /\ codec.in[1] >= 128
    /\ Len(encodeVarint(codec.in)) = 10
    /\ codec.out.value = codec.in

\* The node t as DecodeBinaryNode is to return it: the attributes as a map,
\* the children likewise, in their order.
RECURSIVE DecodedForm(_)
DecodedForm(t) ==
    [Tag |-> t.Tag,
     Attrs |-> [k \in {t.Attrs[i][1] : i \in DOMAIN t.Attrs} |->
                  (CHOOSE p \in {t.Attrs[i] : i \in DOMAIN t.Attrs} : p[1] = k)[2]],
     Content |-> IF t.Content.kind = "list"
                 THEN [kind |-> "list",
                       val |-> [i \in DOMAIN t.Content.val |-> DecodedForm(t.Content.val[i])]]
                 ELSE t.Content]

\* C22: for every node t the codec was called with, DecodeBinaryNode of
\* EncodeBinaryNode(t) returns no error and the node t: its tag, its
\* attribute map, its content of the same kind and value, its children in
\* order.
C22_NodeRoundTrip ==
    (codec.kind = "node" /\ codec.done) =>
        /\ codec.out.err = ErrNone
        /\ codec.out.val = DecodedForm(codec.in)

\* C23: for every string s encodeString was called with, decodeString of
\* encodeString(s) returns s, and a non-empty s of the dictionary is encoded
\* in exactly one byte.
C23_DictionaryIdempotence ==
    (codec.kind = "string" /\ codec.done) =>
        /\ codec.out.err = ErrNone
        /\ codec.out.val = codec.in
        /\ (codec.in # <<>> /\ \E i \in 1..Len(tagDictionary) : tagDictionary[i] = codec.in)
              => Len(encodeString(codec.in)) = 1

\* C28: the message EncodeClientFinish returns has a field 4 whose bytes are
\* a message with the encrypted static key in its field 1 and, when there is
\* a payload, the encrypted payload in its field 2.
C28_ClientFinishLayout ==
    (codec.kind = "finish" /\ codec.done) =>
        LET inner == findField(codec.out, 4) IN
        /\ inner.err = ErrNone
        /\ findField(inner.bytes, 1) = [err |-> ErrNone, bytes |-> codec.in.static]
        /\ codec.in.payload # <<>> =>
              findField(inner.bytes, 2) = [err |-> ErrNone, bytes |-> codec.in.payload]

\* C29: DecodeServerHello returns the same ephemeral, static and payload for
\* a ServerHello wrapped in field 3 of a HandshakeMessage and for the same
\* ServerHello bare, whichever of its fields are present, and the same with
\* and without an unknown field of any wire type.
C29_WrappedBareSameDecode ==
    (codec.kind = "hello" /\ codec.done) =>
        /\ codec.out.wrapped = codec.out.bare
        /\ codec.out.wrapped = codec.out.known

\* C24: once the QR timeout has fired in startNewSession the Connection is
\* never Authenticated, and when Connect has returned the QR-expired error
\* the Connection is Disconnected and the session status is DISCONNECTED.
C24_QRExpiryDisconnects ==
    hist.qrExpired =>
        /\ conn.state # StateAuthenticated
        /\ conn.pc = "failed" =>
              /\ conn.state = StateDisconnected
              /\ wa.status = StatusDisconnected

\* C25: once the Connection is Authenticated the credentials of its session
\* are on disk (creds.json exists), whether it paired through the QR code or
\* resumed.
C25_PairedCredentialsPersisted ==
    conn.state = StateAuthenticated => creds[NoiseSessionID]

\* C26: when creds.json exists for the session and resumeSession takes the
\* server's answer from msgChan, the Connection becomes Authenticated and the
\* session READY, and the QR callback has not been invoked, before or by
\* that step.
C26_ResumeWithoutQR ==
    [][(/\ creds[NoiseSessionID]
        /\ conn.pc = "resume_wait"
        /\ Len(conn'.msgChan) < Len(conn.msgChan))
       => /\ conn'.state = StateAuthenticated
          /\ wa'.status = StatusReady
          /\ ~wa.qrCode /\ ~wa'.qrCode]_vars
C26_Witness ==
    /\ creds[NoiseSessionID]
    /\ conn.pc = "ok"
    /\ conn.state = StateAuthenticated
    /\ wa.status = StatusReady
    /\ ~wa.qrCode

\* C27: a registered session whose Connect failed in the handshake (the
\* WebSocket closed, the connect goroutine ended in error) has the status
\* DISCONNECTED and its goroutine makes no further step (no second dial), and
\* a CreateSession for its identifier starts a new connect goroutine for
\* that identifier.
C27_FailedHandshakeRecreate ==
    [][\A i \in Ids :
         (/\ sessions[i] # NoClient
          /\ driverPc[sessions[i]] = "failed"
          /\ ws[sessions[i]] = "closed")
         => /\ status[sessions[i]] = StatusDisconnected
            /\ driverPc'[sessions[i]] = "failed"
            /\ SessionCreate(i) =>
                  \E n \in Clients : /\ clientPc[n] # "spawned"
                                     /\ clientPc'[n] = "spawned"
                                     /\ ID'[n] = i]_vars

\* C30: in every state of the session map in which the API is served,
\* GetStats reports total = the number of registered sessions, ready = the
\* number of them with status READY, initializing = the number of them that
\* are neither READY nor DISCONNECTED, and ready + initializing <= total.
C30_StatsCountByStatus ==
    LET ids == {i \in Ids : sessions[i] # NoClient} IN
    mainPc = "serving" =>
    /\ GetStats.Total = Cardinality(ids)
    /\ GetStats.Ready = Cardinality({i \in ids : status[sessions[i]] = StatusReady})
    /\ GetStats.Initializing =
          Cardinality({i \in ids :
                          status[sessions[i]] \notin {StatusReady, StatusDisconnected}})
    /\ GetStats.Ready + GetStats.Initializing <= GetStats.Total

\* The salt after the three DH results were mixed in the order DH(e, e_s),
\* DH(e, s_s), DH(s, e_s).
FullHandshakeSalt ==
    LET k2 == hkdf(X25519(ephemeralPrivate, ServerStaticKey).shared, ServerHelloKey.lo)
    IN hkdf(X25519(staticPrivate, ServerEphemeralKey).shared, k2.lo).lo

\* C31: whenever the handler is in Transport (isFinished), the ClientHello
\* was written first, and the keys are those of a handshake in which
\* DH(e, e_s) was mixed, the server's static key was opened and DH(e, s_s)
\* mixed, and DH(s, e_s) mixed, in this order.
C31_TransportOnlyAfterFullHandshake ==
    noise.isFinished =>
        /\ Len(wire) >= 1
        /\ wire[1].data = GenerateClientHello(NewNoiseHandler)
        /\ noise.salt = FullHandshakeSalt
        /\ noise.encKey = hkdf(<<>>, FullHandshakeSalt).lo
        /\ noise.decKey = hkdf(<<>>, FullHandshakeSalt).hi

\* C32: before the handshake is finished, after every call of DecodeFrame on
\* the frames of a sequence of payloads handed over in chunks, the frames
\* returned so far are the first payloads in order, they, the buffer and the
\* bytes still to come make up the whole stream, the buffer holds no
\* complete frame, and when the stream is exhausted the frames returned are
\* exactly the payloads.
C32_FramesRoundTrip ==
    (codec.kind = "frames" /\ codec.calls > 0 /\ ~noise.isFinished) =>
        /\ Len(codec.out) <= Len(codec.in)
        /\ codec.out = SubSeq(codec.in, 1, Len(codec.out))
        /\ FrameStream(codec.out) \o noise.frameBuffer \o codec.stream = FrameStream(codec.in)
        /\ \/ Len(noise.frameBuffer) < 3
           \/ Len(noise.frameBuffer) <
                 3 + noise.frameBuffer[1] * 65536 + noise.frameBuffer[2] * 256
                   + noise.frameBuffer[3]
        /\ codec.done => codec.out = codec.in
C32_Witness ==
    /\ codec.kind = "frames" /\ codec.done
    /\ codec.calls >= 3
    /\ Len(codec.in) = 2 /\ Len(codec.in[1]) = 300
    /\ codec.out = codec.in

\* C33: a session whose status is DISCONNECTED is not moved to QR_READY or
\* READY by any step, and its Connection does not become Authenticated.
C33_DisconnectedIsTerminal ==
    [][\A c \in Clients :
         status[c] = StatusDisconnected =>
            /\ status'[c] \notin {StatusQRReady, StatusReady}
            /\ state[c] # StateAuthenticated => state'[c] # StateAuthenticated]_vars

\* C34: when creds.json exists, every step in which resumeSession ends
\* without a response (the credentials cannot be loaded, the send fails, the
\* 30 s pass) leaves Connect waiting for the authentication message, with
\* the QR callback invoked and the status QR_READY, and never in error; the
\* QR callback is invoked at most once per Connect.
C34_ResumeFailureFallsBackToPairing ==
    [][/\ (/\ creds[NoiseSessionID]
           /\ conn.pc \in {"resume", "resume_wait"}
           /\ conn'.pc \notin {"resume", "resume_wait", "ok"})
          => /\ conn'.pc = "qr_wait"
             /\ hist.qrCalls = 0 /\ hist'.qrCalls = 1
             /\ wa'.qrCode /\ wa'.status = StatusQRReady
       /\ hist'.qrCalls <= 1]_vars
C34_Witness ==
    /\ creds[NoiseSessionID]
    /\ conn.pc = "qr_wait"
    /\ hist.qrCalls = 1
    /\ wa.qrCode /\ wa.status = StatusQRReady
    /\ Len(wire) = 3

\* C35: decodeVarint reports 0 bytes consumed on every byte string that has
\* no byte without the continuation bit, or has the first such byte in
\* eleventh place or later, or in tenth place with a value above 1 (a bit
\* shifted past bit 63).
C35_VarintOverflowRejected ==
    (codec.kind = "varbytes" /\ codec.done) =>
        LET ends == {i \in 1..Len(codec.in) : codec.in[i] < 128}
            last == CHOOSE i \in ends : \A j \in ends : i <= j
        IN (\/ ends = {}
            \/ last >= 11
            \/ last = 10 /\ codec.in[10] > 1)
           => codec.out.n = 0

\* C36: DecodeBinaryNode on a node's encoding cut short returns an error;
\* findField for a field that runs past the end of a message cut short
\* returns an error, and DecodeServerHello on that message returns an error.
C36_TruncatedInputRejected ==
    /\ (codec.kind = "cutnode" /\ codec.done) => codec.out.err # ErrNone
    /\ (codec.kind = "cuthello" /\ codec.done) =>
          /\ codec.out.field.err # ErrNone
          /\ codec.out.helloErr # ErrNone

\* C37: in Transport mode a step never changes the hash or the two keys; a
\* step that advances writeCounter (an encrypt) is no read, leaves readCounter
\* alone and seals under the outbound key with the nonce writeCounter held; a
\* step that advances readCounter (a decrypt) writes nothing, leaves
\* writeCounter alone, and what it opened was opened under the inbound key
\* with the nonce readCounter held.
C37_DirectionsIndependent ==
    [][noise.isFinished =>
         /\ noise'.hash = noise.hash
         /\ noise'.encKey = noise.encKey
         /\ noise'.decKey = noise.decKey
         /\ noise'.writeCounter # noise.writeCounter =>
               /\ noise'.writeCounter = CounterInc(noise.writeCounter)
               /\ noise'.readCounter = noise.readCounter
               /\ server' = server
               /\ noise.writeCounter = CounterZero =>
                     \/ noise.encKey \in hist'.zeroKeys
                     \/ hist'.nonceReused
         /\ noise'.readCounter # noise.readCounter =>
               /\ noise'.readCounter = CounterInc(noise.readCounter)
               /\ noise'.writeCounter = noise.writeCounter
               /\ wire' = wire
               /\ Len(conn'.msgChan) > Len(conn.msgChan)
                    /\ conn'.msgChan[Len(conn'.msgChan)].opened =>
                     /\ noise.decKey = ServerTransportKey
                     /\ conn'.msgChan[Len(conn'.msgChan)].data =
                           <<PlainMarker>> \o noise.readCounter]_vars
\* Both directions were used in Transport mode: the resume node was sealed
\* and a message of the server was opened.
C37_Witness ==
    /\ noise.isFinished
    /\ noise.writeCounter # CounterZero
    /\ noise.readCounter # CounterZero
    /\ \E i \in 1..Len(conn.msgChan) : conn.msgChan[i].opened

\* C38: in the pairing flow (no stored credentials) the message on which the
\* Connection becomes Authenticated is one the server sent after the QR
\* string was emitted, that is, one of its transport messages (opened, or
\* passed on as received), never a message of the handshake.
C38_AuthOnlyOnMessageAfterQR ==
    [][(/\ ~creds[NoiseSessionID]
        /\ conn.pc = "qr_wait"
        /\ conn.state # StateAuthenticated
        /\ conn'.state = StateAuthenticated)
           => \/ Head(conn.msgChan).opened
              \/ IsTransportCiphertext(Head(conn.msgChan).data)]_vars

\* C39: in Transport mode a step of the receive loop that queues its message
\* advances readCounter only when the message was opened: a message that
\* failed the AEAD verification leaves readCounter as it was.
C39_ReadCounterOnlyOnSuccess ==
    [][(/\ noise.isFinished
        /\ Len(conn'.msgChan) > Len(conn.msgChan)
        /\ ~conn'.msgChan[Len(conn'.msgChan)].opened)
           => noise'.readCounter = noise.readCounter]_vars

\* C40: a step of performHandshake in which ProcessServerHello was called and
\* returned an error leaves the handler (hash, salt, keys, counters, stored
\* server ephemeral) as it was before the call.
C40_FailedServerHelloLeavesState ==
    [][(/\ conn.pc = "wait_sh"
        /\ hs'.processAttempts > hs.processAttempts
        /\ conn'.pc # "finish")
           => noise' = noise]_vars

=============================================================================
